---- MODULE Spec2Model ----
(***************************************************************************)
(* A model of the jsonValidator package: Validate decodes a JSON document, *)
(* walks its keys against the validations declared in the tags of a form   *)
(* structure, coerces and commits the values, and returns the errors.      *)
(*                                                                         *)
(* Text is a sequence of one-character strings, so that parsing, rendering *)
(* and the case transforms are computed character by character.  A real    *)
(* number (Go float64) is an integer count of tenths: 15 is 1.5.  The      *)
(* numbers of the model are finite decimals with one fractional digit and  *)
(* the characters are ASCII.                                               *)
(***************************************************************************)
EXTENDS Integers, Sequences, FiniteSets, TLC

(***************************************************************************)
(* Characters and text                                                     *)
(***************************************************************************)
UpperChars == <<"A","B","C","D","E","F","G","H","I","J","K","L","M",
                "N","O","P","Q","R","S","T","U","V","W","X","Y","Z">>
LowerChars == <<"a","b","c","d","e","f","g","h","i","j","k","l","m",
                "n","o","p","q","r","s","t","u","v","w","x","y","z">>
Digits == <<"0","1","2","3","4","5","6","7","8","9">>

Range(s) == {s[i] : i \in DOMAIN s}

IndexOf(seq, c) == CHOOSE i \in DOMAIN seq : seq[i] = c

\* unicode.ToLower on one character
ToLower(c) == IF c \in Range(UpperChars) THEN LowerChars[IndexOf(UpperChars, c)] ELSE c

\* the upper-case mapping applied by cases.Title to the first character of a word
ToUpper(c) == IF c \in Range(LowerChars) THEN UpperChars[IndexOf(LowerChars, c)] ELSE c

IsDigit(c) == c \in Range(Digits)

DigitVal(c) == IndexOf(Digits, c) - 1

\* strings.Split(str, sep) for a one-character separator: the pieces between
\* the separators, empty pieces included; one piece (the text) without separator
RECURSIVE SplitFrom(_, _, _, _)
SplitFrom(str, sep, i, cur) ==
  IF i > Len(str) THEN <<cur>>
  ELSE IF str[i] = sep THEN <<cur>> \o SplitFrom(str, sep, i + 1, <<>>)
  ELSE SplitFrom(str, sep, i + 1, Append(cur, str[i]))

Split(str, sep) == SplitFrom(str, sep, 1, <<>>)

\* strings.Join(parts, sep)
RECURSIVE Join(_, _)
Join(parts, sep) ==
  IF parts = <<>> THEN <<>>
  ELSE IF Len(parts) = 1 THEN parts[1]
  ELSE parts[1] \o sep \o Join(Tail(parts), sep)

HasPrefix(str, prefix) ==
  /\ Len(str) >= Len(prefix)
  /\ SubSeq(str, 1, Len(prefix)) = prefix

\* strings.CutPrefix: the text after the prefix (meaningful when HasPrefix)
CutPrefix(str, prefix) == SubSeq(str, Len(prefix) + 1, Len(str))

\* strconv.Itoa
RECURSIVE NatToText(_)
NatToText(n) ==
  IF n < 10 THEN <<Digits[n + 1]>>
  ELSE NatToText(n \div 10) \o <<Digits[(n % 10) + 1]>>

Itoa(i) == IF i < 0 THEN <<"-">> \o NatToText(-i) ELSE NatToText(i)

RECURSIVE DigitsToNat(_)
DigitsToNat(ds) ==
  IF ds = <<>> THEN 0
  ELSE 10 * DigitsToNat(SubSeq(ds, 1, Len(ds) - 1)) + DigitVal(ds[Len(ds)])

AllDigits(s) == \A i \in DOMAIN s : IsDigit(s[i])

HasSign(s) == s # <<>> /\ s[1] \in {"+", "-"}

Unsigned(s) == IF HasSign(s) THEN Tail(s) ELSE s

\* the bits of an int.  The builds have 64; the model has fewer, so that the
\* numbers beyond an int can be written
IntBits == 16

MaxInt == 2^(IntBits - 1) - 1
MinInt == 0 - 2^(IntBits - 1)

ParseIntVal(s) ==
  IF s[1] = "-" THEN 0 - DigitsToNat(Unsigned(s)) ELSE DigitsToNat(Unsigned(s))

\* strconv.ParseInt(s, 10, 0): an optional sign and at least one decimal
\* digit, the number within the int
ParseIntOk(s) ==
  /\ Unsigned(s) # <<>>
  /\ AllDigits(Unsigned(s))
  /\ MinInt <= ParseIntVal(s)
  /\ ParseIntVal(s) <= MaxInt

\* strconv.ParseFloat(s, 64) on decimal text: an optional sign, digits with at
\* most one point, at least one digit.  The value is counted in tenths.
DotAt(s) == IF "." \in Range(s) THEN IndexOf(s, ".") ELSE Len(s) + 1

IntPart(s) == SubSeq(s, 1, DotAt(s) - 1)

FracPart(s) == SubSeq(s, DotAt(s) + 1, Len(s))

ParseFloatOk(s) ==
  LET u == Unsigned(s) IN
    /\ AllDigits(IntPart(u))
    /\ AllDigits(FracPart(u))
    /\ Len(IntPart(u)) + Len(FracPart(u)) >= 1

ParseFloatVal(s) ==
  LET u == Unsigned(s)
      m == 10 * DigitsToNat(IntPart(u))
           + (IF FracPart(u) = <<>> THEN 0 ELSE DigitVal(FracPart(u)[1]))
  IN IF s[1] = "-" THEN 0 - m ELSE m

\* int(f) for a float64 f: truncation toward zero (f is counted in tenths)
Trunc(f) == IF f >= 0 THEN f \div 10 ELSE 0 - ((0 - f) \div 10)

\* float64(i) for an int i; the largest int is no float64 and is rounded to
\* the next one, 2^(IntBits - 1)
ToFloat(i) == IF i = MaxInt THEN 10 * (MaxInt + 1) ELSE 10 * i

\* the builds, by what int(f) gives for a float64 f beyond the int: the
\* smallest int on amd64, the nearest int on arm64
Builds == {"amd64", "arm64"}

\* int(f) for a float64 f on the build
IntOf(build, f) ==
  IF MinInt <= Trunc(f) /\ Trunc(f) <= MaxInt THEN Trunc(f)
  ELSE IF build = "amd64" THEN MinInt
  ELSE IF f > 0 THEN MaxInt ELSE MinInt

RECURSIVE StripZeros(_)
\* the digits without their trailing zeros
StripZeros(ds) ==
  IF ds # <<>> /\ ds[Len(ds)] = "0" THEN StripZeros(SubSeq(ds, 1, Len(ds) - 1)) ELSE ds

\* the %e form of %g, d[.ddd]e+XX, of a tenths
ExponentForm(a) ==
  LET ds == StripZeros(NatToText(a))
      exp == Len(NatToText(a \div 10)) - 1
  IN <<ds[1]>> \o (IF Len(ds) > 1 THEN <<".">> \o Tail(ds) ELSE <<>>)
     \o <<"e", "+">> \o (IF exp < 10 THEN <<"0">> ELSE <<>>) \o NatToText(exp)

\* fmt.Sprintf("%v", f) for a float64 f, that is %g with the shortest digits:
\* the decimal rendering below 10^6 and the exponent form from 10^6 on
FormatFloat(f) ==
  LET a == IF f < 0 THEN 0 - f ELSE f
      body == IF a \div 10 >= 1000000
              THEN ExponentForm(a)
              ELSE NatToText(a \div 10)
                   \o (IF a % 10 = 0 THEN <<>> ELSE <<".", Digits[(a % 10) + 1]>>)
  IN IF f < 0 THEN <<"-">> \o body ELSE body

\* fmt.Sprintf("%v", b) for a bool b
FormatBool(b) == IF b THEN <<"t","r","u","e">> ELSE <<"f","a","l","s","e">>

\* strconv.ParseBool: the accepted literals
TrueLiterals == { <<"1">>, <<"t">>, <<"T">>, <<"T","R","U","E">>,
                  <<"t","r","u","e">>, <<"T","r","u","e">> }
FalseLiterals == { <<"0">>, <<"f">>, <<"F">>, <<"F","A","L","S","E">>,
                   <<"f","a","l","s","e">>, <<"F","a","l","s","e">> }

ParseBoolOk(s) == s \in TrueLiterals \cup FalseLiterals

ParseBoolVal(s) == s \in TrueLiterals

(***************************************************************************)
(* jsonValidator.go: the case transforms                                   *)
(***************************************************************************)
\* cases.Title(language.English, cases.NoLower): the first character of every
\* word in upper case, the rest unchanged
TitleWord(w) == IF w = <<>> THEN w ELSE <<ToUpper(w[1])>> \o Tail(w)

TitleCase(str) ==
  LET ws == Split(str, " ")
  IN Join([i \in DOMAIN ws |-> TitleWord(ws[i])], <<" ">>)

\* LowerCase: "" is returned as it is; otherwise a[0] of every piece of
\* strings.Split(str, " ") is lowered.  a[0] of an empty piece is an index out
\* of range: the call panics and returns nothing.
LowerCasePanics(str) ==
  /\ str # <<>>
  /\ \E i \in DOMAIN Split(str, " ") : Split(str, " ")[i] = <<>>

LowerWord(w) == <<ToLower(w[1])>> \o Tail(w)

LowerCase(str) ==
  IF str = <<>> THEN str
  ELSE LET ws == Split(str, " ")
       IN Join([i \in DOMAIN ws |-> LowerWord(ws[i])], <<" ">>)

(***************************************************************************)
(* Decoded values (the `any` tree of encoding/json) and committed values   *)
(***************************************************************************)
StrV(s) == [k |-> "string", v |-> s]
NumV(f) == [k |-> "float64", v |-> f]
IntV(i) == [k |-> "int", v |-> i]
BoolV(b) == [k |-> "bool", v |-> b]
NullV == [k |-> "nil"]
ListV(xs) == [k |-> "list", v |-> xs]
MapV(m) == [k |-> "map", v |-> m]
StructV(fs) == [k |-> "struct", v |-> fs]

\* the function with an empty domain: an object without keys
EmptyMap == [key \in {} |-> NullV]

\* the function that maps the one key to the one value
OneKey(key, val) == [kk \in {key} |-> val]

\* the union of two functions with disjoint domains
Merge(f, g) == [kk \in (DOMAIN f) \cup (DOMAIN g) |-> IF kk \in DOMAIN f THEN f[kk] ELSE g[kk]]

\* fmt.Sprintf("%v", v) for the kinds a coercer renders
Sprintv(val) ==
  CASE val.k = "float64" -> FormatFloat(val.v)
    [] val.k = "int" -> Itoa(val.v)
    [] val.k = "bool" -> FormatBool(val.v)
    [] val.k = "string" -> val.v

(***************************************************************************)
(* fieldsValidations.go: the scalar coercers                               *)
(***************************************************************************)
validateStringType(fieldValue) ==
  CASE fieldValue.k = "string" ->
         [value |-> StrV(fieldValue.v), invalidFormat |-> FALSE]
    [] fieldValue.k \in {"float64", "int", "bool"} ->
         [value |-> StrV(Sprintv(fieldValue)), invalidFormat |-> FALSE]
    [] OTHER -> [value |-> StrV(<<>>), invalidFormat |-> TRUE]

\* validateIntType on the build
validateIntTypeOn(build, fieldValue) ==
  CASE fieldValue.k = "string" ->
         IF ParseIntOk(fieldValue.v)
         THEN [value |-> IntV(ParseIntVal(fieldValue.v)), invalidFormat |-> FALSE]
         ELSE [value |-> IntV(0), invalidFormat |-> TRUE]
    [] fieldValue.k = "float64" ->
         IF ToFloat(IntOf(build, fieldValue.v)) = fieldValue.v
         THEN [value |-> IntV(IntOf(build, fieldValue.v)), invalidFormat |-> FALSE]
         ELSE [value |-> IntV(0), invalidFormat |-> TRUE]
    [] fieldValue.k = "int" -> [value |-> IntV(fieldValue.v), invalidFormat |-> FALSE]
    [] OTHER -> [value |-> IntV(0), invalidFormat |-> TRUE]

\* validateIntType on any build: the builds give the same for every number
\* within the int
validateIntType(fieldValue) ==
  CHOOSE r \in {validateIntTypeOn(build, fieldValue) : build \in Builds} : TRUE

validateFloatType(fieldValue) ==
  CASE fieldValue.k = "string" ->
         IF ParseFloatOk(fieldValue.v)
         THEN [value |-> NumV(ParseFloatVal(fieldValue.v)), invalidFormat |-> FALSE]
         ELSE [value |-> NumV(0), invalidFormat |-> TRUE]
    [] fieldValue.k = "float64" -> [value |-> NumV(fieldValue.v), invalidFormat |-> FALSE]
    [] fieldValue.k = "int" -> [value |-> NumV(ToFloat(fieldValue.v)), invalidFormat |-> FALSE]
    [] OTHER -> [value |-> NumV(0), invalidFormat |-> TRUE]

\* a boolean coercer that takes the texts true and false only
validateBoolTypeStrict(fieldValue) ==
  CASE fieldValue.k \in {"string", "int", "float64"} ->
         IF Sprintv(fieldValue) \in {FormatBool(TRUE), FormatBool(FALSE)}
         THEN [value |-> BoolV(Sprintv(fieldValue) = FormatBool(TRUE)), invalidFormat |-> FALSE]
         ELSE [value |-> BoolV(FALSE), invalidFormat |-> TRUE]
    [] fieldValue.k = "bool" -> [value |-> BoolV(fieldValue.v), invalidFormat |-> FALSE]
    [] OTHER -> [value |-> BoolV(FALSE), invalidFormat |-> TRUE]

validateBoolType(fieldValue) ==
  CASE fieldValue.k \in {"string", "int", "float64"} ->
         IF ParseBoolOk(Sprintv(fieldValue))
         THEN [value |-> BoolV(ParseBoolVal(Sprintv(fieldValue))), invalidFormat |-> FALSE]
         ELSE [value |-> BoolV(FALSE), invalidFormat |-> TRUE]
    [] fieldValue.k = "bool" -> [value |-> BoolV(fieldValue.v), invalidFormat |-> FALSE]
    [] OTHER -> [value |-> BoolV(FALSE), invalidFormat |-> TRUE]

(***************************************************************************)
(* fieldsValidations.go: the validations of a form, read from its tags     *)
(***************************************************************************)
TString == <<"s","t","r","i","n","g">>
TInt == <<"i","n","t">>
TFloat == <<"f","l","o","a","t">>
TBool == <<"b","o","o","l">>
TStruct == <<"s","t","r","u","c","t">>
TStringList == <<"[","]">> \o TString
TIntList == <<"[","]">> \o TInt
TFloatList == <<"[","]">> \o TFloat
TStructList == <<"[","]">> \o TStruct

KnownTypes == {TString, TInt, TFloat, TBool, TStruct,
               TStringList, TIntList, TFloatList, TStructList}

KwRequired == <<"r","e","q","u","i","r","e","d","=">>
KwType == <<"t","y","p","e","=">>
KwMin == <<"m","i","n","=">>
KwMax == <<"m","a","x","=">>
KwChoices == <<"c","h","o","i","c","e","s","=">>
TrueText == <<"t","r","u","e">>

DefaultSeparator == ";"
DefaultChoicesSeparator == ","

\* new(Validations): Type "", Required false, Min 0, Max 0, Choices nil.
\* A nil Choices is the empty sequence; the code never stores an empty non-nil one.
NewValidations == [Type |-> <<>>, Required |-> FALSE, Min |-> 0, Max |-> 0, Choices |-> <<>>]

IntBoundTypes == {TString, TInt, TStringList, TIntList, TFloatList, TStructList}

\* 2.1) Case: Required.
ApplyRequired(vs, validation) ==
  IF HasPrefix(validation, KwRequired) /\ CutPrefix(validation, KwRequired) = TrueText
  THEN [vs EXCEPT !.Required = TRUE] ELSE vs

\* 2.2) Case: Type.
ApplyType(vs, validation) ==
  IF HasPrefix(validation, KwType) /\ CutPrefix(validation, KwType) \in KnownTypes
  THEN [vs EXCEPT !.Type = CutPrefix(validation, KwType)] ELSE vs

\* the bound a min= or max= clause sets, or the bound it leaves alone
ParsedBound(vs, value, old) ==
  CASE vs.Type \in IntBoundTypes ->
         IF ParseIntOk(value) THEN ToFloat(ParseIntVal(value)) ELSE old
    [] vs.Type = TFloat ->
         IF ParseFloatOk(value) THEN ParseFloatVal(value) ELSE old
    [] OTHER -> old

\* 2.3) Case: Min.
ApplyMin(vs, validation) ==
  IF HasPrefix(validation, KwMin)
  THEN [vs EXCEPT !.Min = ParsedBound(vs, CutPrefix(validation, KwMin), vs.Min)] ELSE vs

\* 2.4) Case: Max.
ApplyMax(vs, validation) ==
  IF HasPrefix(validation, KwMax)
  THEN [vs EXCEPT !.Max = ParsedBound(vs, CutPrefix(validation, KwMax), vs.Max)] ELSE vs

\* the choices appended for the pieces of a choices= value
RECURSIVE ParsedChoices(_, _)
ParsedChoices(type, pieces) ==
  IF pieces = <<>> THEN <<>>
  ELSE LET choice == pieces[1]
           this == CASE type \in {TString, TStringList} -> <<StrV(choice)>>
                     [] type \in {TInt, TIntList} ->
                          IF ParseIntOk(choice) THEN <<IntV(ParseIntVal(choice))>> ELSE <<>>
                     [] type \in {TFloat, TFloatList} ->
                          IF ParseFloatOk(choice) THEN <<NumV(ParseFloatVal(choice))>> ELSE <<>>
                     [] OTHER -> <<>>
       IN this \o ParsedChoices(type, Tail(pieces))

\* 2.5) Case: Choices.
ApplyChoices(vs, validation) ==
  IF HasPrefix(validation, KwChoices) /\ CutPrefix(validation, KwChoices) # <<>>
  THEN [vs EXCEPT !.Choices =
          ParsedChoices(vs.Type, Split(CutPrefix(validation, KwChoices), DefaultChoicesSeparator))]
  ELSE vs

ApplyClause(vs, validation) ==
  ApplyChoices(ApplyMax(ApplyMin(ApplyType(ApplyRequired(vs, validation), validation),
                                 validation), validation), validation)

RECURSIVE ApplyClauses(_, _)
ApplyClauses(vs, validationsSplit) ==
  IF validationsSplit = <<>> THEN vs
  ELSE ApplyClauses(ApplyClause(vs, validationsSplit[1]), Tail(validationsSplit))

parseValidationTags(validationsSplit) == ApplyClauses(NewValidations, validationsSplit)

(***************************************************************************)
(* The forms: the structure types Validate is called with.  A field has a  *)
(* Go name, a `validations` tag and, for struct and []struct fields, the   *)
(* structure type of the field.                                            *)
(***************************************************************************)
NName == <<"N","a","m","e">>
NAge == <<"A","g","e">>
NCode == <<"C","o","d","e">>
NPrice == <<"P","r","i","c","e">>
NSuccessful == <<"S","u","c","c","e","s","s","f","u","l">>
NLimit == <<"L","i","m","i","t">>
NNote == <<"N","o","t","e">>
NRates == <<"R","a","t","e","s">>
NNext == <<"N","e","x","t">>
NOwners == <<"O","w","n","e","r","s">>
NPreviousCodes == <<"P","r","e","v","i","o","u","s","C","o","d","e","s">>
NPreviousPrices == <<"P","r","e","v","i","o","u","s","P","r","i","c","e","s">>
NPerson == <<"P","e","r","s","o","n">>
NPersonList == <<"P","e","r","s","o","n","L","i","s","t">>
NDelta == <<"D","e","l","t","a">>
NLabel == <<"L","a","b","e","l">>
NRatio == <<"R","a","t","i","o">>
NRatios == <<"R","a","t","i","o","s">>

Tab == <<"a","b">>
Tabc == <<"a","b","c">>
Tabcd == <<"a","b","c","d">>

Clause(kw, value) == kw \o value

Tag(clauses) == Join(clauses, <<DefaultSeparator>>)

Field(name, tag, elem) == [Name |-> name, Tag |-> tag, Elem |-> elem]

StructDef(T) ==
  CASE T = "Person" ->
         << Field(NName, Tag(<<Clause(KwType, TString), Clause(KwRequired, TrueText)>>), ""),
            Field(NAge, Tag(<<Clause(KwType, TInt)>>), "") >>
    [] T = "Node" ->
         \* a structure with a pointer to a structure of its own type
         << Field(NName, Tag(<<Clause(KwType, TString), Clause(KwRequired, TrueText)>>), ""),
            Field(NNext, Tag(<<Clause(KwType, TStruct)>>), "Node") >>
    [] T = "scalarForm" ->
         << Field(NName, Tag(<<Clause(KwType, TString), Clause(KwRequired, TrueText),
                               Clause(KwMin, <<"2">>), Clause(KwMax, <<"3">>),
                               Clause(KwChoices, <<"a","b",",","a","b","c","d">>)>>), ""),
            Field(NCode, Tag(<<Clause(KwType, TInt), Clause(KwMin, <<"1">>),
                               Clause(KwMax, <<"1","0">>)>>), ""),
            Field(NPrice, Tag(<<Clause(KwType, TFloat), Clause(KwMin, <<"1",".","5">>),
                                Clause(KwMax, <<"2",".","5">>),
                                Clause(KwChoices, <<"1",".","5",",","2",",","3">>)>>), ""),
            Field(NSuccessful, Tag(<<Clause(KwType, TBool)>>), "") >>
    [] T = "mixedForm" ->
         << Field(NLimit, Tag(<<Clause(KwType, TInt), Clause(KwMin, <<"3">>),
                                Clause(KwMax, <<"1">>),
                                Clause(KwChoices, <<"1",",","3">>)>>), ""),
            Field(NNote, Tag(<<Clause(KwRequired, TrueText)>>), ""),
            Field(NPreviousCodes, Tag(<<Clause(KwType, TIntList),
                                        Clause(KwRequired, TrueText),
                                        Clause(KwChoices, <<"1",",","2">>)>>), ""),
            Field(NSuccessful, Tag(<<Clause(KwType, TBool)>>), "") >>
    [] T = "listForm" ->
         << Field(NOwners, Tag(<<Clause(KwType, TStringList), Clause(KwMin, <<"1">>),
                                 Clause(KwMax, <<"2">>),
                                 Clause(KwChoices, <<"a","b">>)>>), ""),
            Field(NPreviousPrices, Tag(<<Clause(KwType, TFloatList)>>), ""),
            Field(NRates, Tag(<<Clause(KwType, TFloatList), Clause(KwMin, <<"2">>),
                                Clause(KwMax, <<"2">>)>>), "") >>
    [] T = "zeroForm" ->
         << Field(NDelta, Tag(<<Clause(KwType, TInt), Clause(KwMin, <<"0">>),
                                Clause(KwMax, <<"0">>)>>), ""),
            Field(NLabel, Tag(<<Clause(KwType, TString), Clause(KwMin, <<"0">>),
                                Clause(KwMax, <<"0">>)>>), ""),
            Field(NRatio, Tag(<<Clause(KwType, TFloat), Clause(KwMin, <<"0",".","0">>),
                                Clause(KwMax, <<"0">>)>>), ""),
            Field(NRatios, Tag(<<Clause(KwType, TFloatList), Clause(KwMin, <<"0">>),
                                 Clause(KwMax, <<"0">>)>>), "") >>
    [] T = "nestedForm" ->
         << Field(NPerson, Tag(<<Clause(KwType, TStruct), Clause(KwRequired, TrueText)>>),
                  "Person"),
            Field(NPersonList, Tag(<<Clause(KwType, TStructList), Clause(KwMin, <<"1">>),
                                     Clause(KwMax, <<"2">>)>>), "Person") >>

RootForms == {"scalarForm", "mixedForm", "listForm", "nestedForm", "zeroForm"}

FieldNames(T) == {StructDef(T)[i].Name : i \in DOMAIN StructDef(T)}

\* the field of the structure with the given Go name (reflect's FieldByName)
FieldByName(T, name) ==
  StructDef(T)[CHOOSE i \in DOMAIN StructDef(T) : StructDef(T)[i].Name = name]

\* the zero value of the structure: every pointer and every slice nil
ZeroStruct(T) == [name \in FieldNames(T) |-> NullV]

\* getValidations: one entry per field, under LowerCase(field.Name); a later
\* field overwrites an earlier one with the same key
getValidations(T) ==
  LET fs == StructDef(T)
      last(key) == CHOOSE i \in DOMAIN fs :
                     /\ LowerCase(fs[i].Name) = key
                     /\ \A j \in DOMAIN fs : LowerCase(fs[j].Name) = key => j <= i
  IN [key \in {LowerCase(fs[i].Name) : i \in DOMAIN fs} |->
        parseValidationTags(Split(fs[last(key)].Tag, DefaultSeparator))]

(***************************************************************************)
(* Errors.  Field and Message are the fields of ValidationError; a Message *)
(* is a template of DefaultMessages with the values interpolated into it.  *)
(* `at` is not in the code: it records the place in the decoded document   *)
(* the error is about, as the keys and list indices that lead to it.       *)
(***************************************************************************)
Msg(tmpl, args) == [tmpl |-> tmpl, args |-> args]

ValidationError(field, message, at) == [Field |-> field, Message |-> message, at |-> at]

\* one step into the document: a key, and for a list element its index
AtKey(key) == [key |-> key, idx |-> -1]
AtElem(key, i) == [key |-> key, idx |-> i]

getFieldName(parent, fieldName) ==
  IF parent = <<>> THEN fieldName ELSE parent \o <<".">> \o fieldName

\* parent + "[" + strconv.Itoa(i) + "]"
IndexName(parent, i) == parent \o <<"[">> \o Itoa(i) \o <<"]">>

\* the text encoding/json reads or json.Marshal writes: malformed text, or
\* the encoding of a value
Malformed == [k |-> "json", wellFormed |-> FALSE, v |-> NullV]
Marshal(val) == [k |-> "json", wellFormed |-> TRUE, v |-> val]

\* a decode that fails for malformed text only
UnmarshalFailsOnSyntaxOnly(jsonData) == ~jsonData.wellFormed

\* json.Unmarshal(jsonData, &decodedJson) with decodedJson a map[string]any:
\* an error for malformed text and for every value but an object and null;
\* null is no error and leaves the map nil
UnmarshalFails(jsonData) == ~jsonData.wellFormed \/ jsonData.v.k \notin {"map", "nil"}

UnmarshalMap(jsonData) == IF jsonData.v.k = "map" THEN jsonData.v.v ELSE EmptyMap

\* what a field validator returns: its errors, and the value it has set on
\* the form when set is true
Outcome(errors, set, value) == [errors |-> errors, set |-> set, value |-> value]

\* a membership test that looks at the first element only
containsFirst(sliceList, value) == sliceList # <<>> /\ sliceList[1] = value

contains(sliceList, value) == \E i \in DOMAIN sliceList : sliceList[i] = value

\* a bound is enforced when reflect's IsZero is false for it
\* a test that takes every bound for declared
BoundSetAlways(bound) == TRUE

BoundSet(bound) == bound # 0

\* a nil slice of choices is reflect's zero value
ChoicesSet(choices) == choices # <<>>

FormatError(fieldName, fieldValue, parent, at) ==
  ValidationError(getFieldName(parent, fieldName), Msg("InvalidFormat", <<fieldValue>>), at)

ChoiceErrors(validations, fieldName, value, parent, at) ==
  IF ChoicesSet(validations.Choices) /\ ~contains(validations.Choices, value)
  THEN <<ValidationError(getFieldName(parent, fieldName),
                         Msg("InvalidChoice", <<value, ListV(validations.Choices)>>), at)>>
  ELSE <<>>

\* a text validator that sets the field whatever the errors
validateStringAlwaysSets(validations, fieldName, fieldValue, parent, at) ==
  LET r == validateStringType(fieldValue)
      minE == IF BoundSet(validations.Min) /\ Len(r.value.v) < Trunc(validations.Min)
              THEN <<ValidationError(getFieldName(parent, fieldName),
                       Msg("InvalidMinString", <<IntV(Trunc(validations.Min))>>), at)>>
              ELSE <<>>
      maxE == IF BoundSet(validations.Max) /\ Len(r.value.v) > Trunc(validations.Max)
              THEN <<ValidationError(getFieldName(parent, fieldName),
                       Msg("InvalidMaxString", <<IntV(Trunc(validations.Max))>>), at)>>
              ELSE <<>>
      errors == minE \o maxE \o ChoiceErrors(validations, fieldName, r.value, parent, at)
  IN IF r.invalidFormat
     THEN Outcome(<<FormatError(fieldName, fieldValue, parent, at)>>, FALSE, NullV)
     ELSE Outcome(errors, TRUE, r.value)

validateString(validations, fieldName, fieldValue, parent, at) ==
  LET r == validateStringType(fieldValue)
      minE == IF BoundSet(validations.Min) /\ Len(r.value.v) < Trunc(validations.Min)
              THEN <<ValidationError(getFieldName(parent, fieldName),
                       Msg("InvalidMinString", <<IntV(Trunc(validations.Min))>>), at)>>
              ELSE <<>>
      maxE == IF BoundSet(validations.Max) /\ Len(r.value.v) > Trunc(validations.Max)
              THEN <<ValidationError(getFieldName(parent, fieldName),
                       Msg("InvalidMaxString", <<IntV(Trunc(validations.Max))>>), at)>>
              ELSE <<>>
      errors == minE \o maxE \o ChoiceErrors(validations, fieldName, r.value, parent, at)
  IN IF r.invalidFormat
     THEN Outcome(<<FormatError(fieldName, fieldValue, parent, at)>>, FALSE, NullV)
     ELSE Outcome(errors, errors = <<>>, r.value)

\* an integer validator that stops at its first violation
validateIntFirstViolation(validations, fieldName, fieldValue, parent, at) ==
  LET r == validateIntType(fieldValue)
      minE == IF BoundSet(validations.Min) /\ r.value.v < Trunc(validations.Min)
              THEN <<ValidationError(getFieldName(parent, fieldName),
                       Msg("InvalidMinNumber", <<IntV(Trunc(validations.Min))>>), at)>>
              ELSE <<>>
      maxE == IF BoundSet(validations.Max) /\ r.value.v > Trunc(validations.Max)
              THEN <<ValidationError(getFieldName(parent, fieldName),
                       Msg("InvalidMaxNumber", <<IntV(Trunc(validations.Max))>>), at)>>
              ELSE <<>>
      errors == IF minE # <<>> THEN minE
                ELSE IF maxE # <<>> THEN maxE
                ELSE ChoiceErrors(validations, fieldName, r.value, parent, at)
  IN IF r.invalidFormat
     THEN Outcome(<<FormatError(fieldName, fieldValue, parent, at)>>, FALSE, NullV)
     ELSE Outcome(errors, errors = <<>>, r.value)

\* an integer validator whose max is exclusive
validateIntExclusiveMax(validations, fieldName, fieldValue, parent, at) ==
  LET r == validateIntType(fieldValue)
      minE == IF BoundSet(validations.Min) /\ r.value.v < Trunc(validations.Min)
              THEN <<ValidationError(getFieldName(parent, fieldName),
                       Msg("InvalidMinNumber", <<IntV(Trunc(validations.Min))>>), at)>>
              ELSE <<>>
      maxE == IF BoundSet(validations.Max) /\ r.value.v >= Trunc(validations.Max)
              THEN <<ValidationError(getFieldName(parent, fieldName),
                       Msg("InvalidMaxNumber", <<IntV(Trunc(validations.Max))>>), at)>>
              ELSE <<>>
      errors == minE \o maxE \o ChoiceErrors(validations, fieldName, r.value, parent, at)
  IN IF r.invalidFormat
     THEN Outcome(<<FormatError(fieldName, fieldValue, parent, at)>>, FALSE, NullV)
     ELSE Outcome(errors, errors = <<>>, r.value)

validateInt(validations, fieldName, fieldValue, parent, at) ==
  LET r == validateIntType(fieldValue)
      minE == IF BoundSet(validations.Min) /\ r.value.v < Trunc(validations.Min)
              THEN <<ValidationError(getFieldName(parent, fieldName),
                       Msg("InvalidMinNumber", <<IntV(Trunc(validations.Min))>>), at)>>
              ELSE <<>>
      maxE == IF BoundSet(validations.Max) /\ r.value.v > Trunc(validations.Max)
              THEN <<ValidationError(getFieldName(parent, fieldName),
                       Msg("InvalidMaxNumber", <<IntV(Trunc(validations.Max))>>), at)>>
              ELSE <<>>
      errors == minE \o maxE \o ChoiceErrors(validations, fieldName, r.value, parent, at)
  IN IF r.invalidFormat
     THEN Outcome(<<FormatError(fieldName, fieldValue, parent, at)>>, FALSE, NullV)
     ELSE Outcome(errors, errors = <<>>, r.value)

\* a real validator that sets the whole part of the value
validateFloatTruncating(validations, fieldName, fieldValue, parent, at) ==
  LET r == validateFloatType(fieldValue)
      minE == IF BoundSet(validations.Min) /\ r.value.v < validations.Min
              THEN <<ValidationError(getFieldName(parent, fieldName),
                       Msg("InvalidMinNumber", <<NumV(validations.Min)>>), at)>>
              ELSE <<>>
      maxE == IF BoundSet(validations.Max) /\ r.value.v > validations.Max
              THEN <<ValidationError(getFieldName(parent, fieldName),
                       Msg("InvalidMaxNumber", <<NumV(validations.Max)>>), at)>>
              ELSE <<>>
      errors == minE \o maxE \o ChoiceErrors(validations, fieldName, r.value, parent, at)
  IN IF r.invalidFormat
     THEN Outcome(<<FormatError(fieldName, fieldValue, parent, at)>>, FALSE, NullV)
     ELSE Outcome(errors, errors = <<>>, NumV(10 * Trunc(r.value.v)))

validateFloat(validations, fieldName, fieldValue, parent, at) ==
  LET r == validateFloatType(fieldValue)
      minE == IF BoundSet(validations.Min) /\ r.value.v < validations.Min
              THEN <<ValidationError(getFieldName(parent, fieldName),
                       Msg("InvalidMinNumber", <<NumV(validations.Min)>>), at)>>
              ELSE <<>>
      maxE == IF BoundSet(validations.Max) /\ r.value.v > validations.Max
              THEN <<ValidationError(getFieldName(parent, fieldName),
                       Msg("InvalidMaxNumber", <<NumV(validations.Max)>>), at)>>
              ELSE <<>>
      errors == minE \o maxE \o ChoiceErrors(validations, fieldName, r.value, parent, at)
  IN IF r.invalidFormat
     THEN Outcome(<<FormatError(fieldName, fieldValue, parent, at)>>, FALSE, NullV)
     ELSE Outcome(errors, errors = <<>>, r.value)

\* a boolean validator that takes every number but 0 for true
validateBoolTruthy(fieldName, fieldValue, parent, at) ==
  LET r == validateBoolType(fieldValue)
  IN IF fieldValue.k = "float64" THEN Outcome(<<>>, TRUE, BoolV(fieldValue.v # 0))
     ELSE IF r.invalidFormat
     THEN Outcome(<<FormatError(fieldName, fieldValue, parent, at)>>, FALSE, NullV)
     ELSE Outcome(<<>>, TRUE, r.value)

validateBool(fieldName, fieldValue, parent, at) ==
  LET r == validateBoolType(fieldValue)
  IN IF r.invalidFormat
     THEN Outcome(<<FormatError(fieldName, fieldValue, parent, at)>>, FALSE, NullV)
     ELSE Outcome(<<>>, TRUE, r.value)

\* length checks that reject a list as long as its bound
ListBoundErrorsExclusive(validations, fieldName, n, parent, at) ==
  (IF BoundSet(validations.Min) /\ n <= Trunc(validations.Min)
   THEN <<ValidationError(getFieldName(parent, fieldName),
            Msg("InvalidMinList", <<IntV(Trunc(validations.Min))>>), at)>>
   ELSE <<>>)
  \o
  (IF BoundSet(validations.Max) /\ n >= Trunc(validations.Max)
   THEN <<ValidationError(getFieldName(parent, fieldName),
            Msg("InvalidMaxList", <<IntV(Trunc(validations.Max))>>), at)>>
   ELSE <<>>)

\* the length checks shared by validateList and validateStructList
ListBoundErrors(validations, fieldName, n, parent, at) ==
  (IF BoundSet(validations.Min) /\ n < Trunc(validations.Min)
   THEN <<ValidationError(getFieldName(parent, fieldName),
            Msg("InvalidMinList", <<IntV(Trunc(validations.Min))>>), at)>>
   ELSE <<>>)
  \o
  (IF BoundSet(validations.Max) /\ n > Trunc(validations.Max)
   THEN <<ValidationError(getFieldName(parent, fieldName),
            Msg("InvalidMaxList", <<IntV(Trunc(validations.Max))>>), at)>>
   ELSE <<>>)

\* the validateElement that parseField passes for the element type of a list
validateElement(elementType, value) ==
  CASE elementType = TString -> validateStringType(value)
    [] elementType = TInt -> validateIntType(value)
    [] elementType = TFloat -> validateFloatType(value)

\* parseElements: results[i] is validateElement(valuesList[i]); one error per
\* element with an invalid format, at index i - 1 of Go
RECURSIVE ElementErrors(_, _, _, _, _)
ElementErrors(valuesList, results, i, parent, at) ==
  IF i > Len(valuesList) THEN <<>>
  ELSE (IF results[i].invalidFormat
        THEN <<ValidationError(IndexName(parent, i - 1),
                 Msg("InvalidFormat", <<valuesList[i]>>),
                 SubSeq(at, 1, Len(at) - 1) \o <<AtElem(at[Len(at)].key, i - 1)>>)>>
        ELSE <<>>)
       \o ElementErrors(valuesList, results, i + 1, parent, at)

\* a parseElements that numbers its errors by their count, not by the index
\* of the element
RECURSIVE ElementErrorsCounted(_, _, _, _, _, _)
ElementErrorsCounted(valuesList, results, i, n, parent, at) ==
  IF i > Len(valuesList) THEN <<>>
  ELSE IF results[i].invalidFormat
  THEN <<ValidationError(IndexName(parent, n),
           Msg("InvalidFormat", <<valuesList[i]>>),
           SubSeq(at, 1, Len(at) - 1) \o <<AtElem(at[Len(at)].key, n)>>)>>
       \o ElementErrorsCounted(valuesList, results, i + 1, n + 1, parent, at)
  ELSE ElementErrorsCounted(valuesList, results, i + 1, n, parent, at)

parseElementsCounted(valuesList, elementType, parent, at) ==
  LET results == [i \in DOMAIN valuesList |-> validateElement(elementType, valuesList[i])]
  IN [parsedValues |-> [i \in DOMAIN valuesList |-> results[i].value],
      errors |-> ElementErrorsCounted(valuesList, results, 1, 0, parent, at)]

parseElements(valuesList, elementType, parent, at) ==
  LET results == [i \in DOMAIN valuesList |-> validateElement(elementType, valuesList[i])]
  IN [parsedValues |-> [i \in DOMAIN valuesList |-> results[i].value],
      errors |-> ElementErrors(valuesList, results, 1, parent, at)]

RECURSIVE DedupFrom(_, _, _)
DedupFrom(sliceList, i, allKeys) ==
  IF i > Len(sliceList) THEN <<>>
  ELSE IF sliceList[i] \in allKeys THEN DedupFrom(sliceList, i + 1, allKeys)
  ELSE <<sliceList[i]>> \o DedupFrom(sliceList, i + 1, allKeys \cup {sliceList[i]})

\* a de-duplication that keeps the last occurrence of each value
removeDuplicateKeepsLast(sliceList) ==
  LET keep == {i \in DOMAIN sliceList :
                 \A j \in DOMAIN sliceList : j > i => sliceList[j] # sliceList[i]}
  IN [n \in 1..Cardinality(keep) |->
        sliceList[CHOOSE i \in keep : Cardinality({j \in keep : j <= i}) = n]]

removeDuplicate(sliceList) == DedupFrom(sliceList, 1, {})

RECURSIVE ListChoiceErrors(_, _, _, _, _)
ListChoiceErrors(choices, parsedValues, i, parent, at) ==
  IF i > Len(parsedValues) THEN <<>>
  ELSE (IF ~contains(choices, parsedValues[i])
        THEN <<ValidationError(IndexName(parent, i - 1),
                 Msg("InvalidChoice", <<parsedValues[i], ListV(choices)>>),
                 SubSeq(at, 1, Len(at) - 1) \o <<AtElem(at[Len(at)].key, i - 1)>>)>>
        ELSE <<>>)
       \o ListChoiceErrors(choices, parsedValues, i + 1, parent, at)

validateListChoices(choices, parsedValues, parent, at) ==
  IF ChoicesSet(choices) THEN ListChoiceErrors(choices, parsedValues, 1, parent, at) ELSE <<>>

\* a list validator that takes a value that is no list for a list without
\* elements
validateListLenient(validations, fieldName, fieldValue, elementType, parent, at) ==
  LET valueList == IF fieldValue.k = "list" THEN fieldValue.v ELSE <<>>
      bound == ListBoundErrors(validations, fieldName, Len(valueList), parent, at)
      parsed == parseElements(valueList, elementType, getFieldName(parent, fieldName), at)
      parsedValues == removeDuplicate(parsed.parsedValues)
      choice == validateListChoices(validations.Choices, parsedValues,
                                    getFieldName(parent, fieldName), at)
  IN IF bound # <<>> THEN Outcome(bound, FALSE, NullV)
     ELSE IF parsed.errors # <<>> THEN Outcome(parsed.errors, FALSE, NullV)
     ELSE IF choice # <<>> THEN Outcome(choice, FALSE, NullV)
     ELSE Outcome(<<>>, TRUE, ListV(parsedValues))

\* a list validator that checks the choices of the list as it was given
validateListChoicesFirst(validations, fieldName, fieldValue, elementType, parent, at) ==
  IF fieldValue.k # "list"
  THEN Outcome(<<FormatError(fieldName, fieldValue, parent, at)>>, FALSE, NullV)
  ELSE
    LET bound == ListBoundErrors(validations, fieldName, Len(fieldValue.v), parent, at)
        parsed == parseElements(fieldValue.v, elementType, getFieldName(parent, fieldName), at)
        parsedValues == removeDuplicate(parsed.parsedValues)
        choice == validateListChoices(validations.Choices, parsed.parsedValues,
                                      getFieldName(parent, fieldName), at)
    IN IF bound # <<>> THEN Outcome(bound, FALSE, NullV)
       ELSE IF parsed.errors # <<>> THEN Outcome(parsed.errors, FALSE, NullV)
       ELSE IF choice # <<>> THEN Outcome(choice, FALSE, NullV)
       ELSE Outcome(<<>>, TRUE, ListV(parsedValues))

\* validateList with the length of the de-duplicated list checked against
\* Min and Max
validateListDedupFirst(validations, fieldName, fieldValue, elementType, parent, at) ==
  IF fieldValue.k # "list"
  THEN Outcome(<<FormatError(fieldName, fieldValue, parent, at)>>, FALSE, NullV)
  ELSE
    LET parsed == parseElements(fieldValue.v, elementType, getFieldName(parent, fieldName), at)
        parsedValues == removeDuplicate(parsed.parsedValues)
        bound == ListBoundErrors(validations, fieldName, Len(parsedValues), parent, at)
        choice == validateListChoices(validations.Choices, parsedValues,
                                      getFieldName(parent, fieldName), at)
    IN IF bound # <<>> THEN Outcome(bound, FALSE, NullV)
       ELSE IF parsed.errors # <<>> THEN Outcome(parsed.errors, FALSE, NullV)
       ELSE IF choice # <<>> THEN Outcome(choice, FALSE, NullV)
       ELSE Outcome(<<>>, TRUE, ListV(parsedValues))

validateList(validations, fieldName, fieldValue, elementType, parent, at) ==
  IF fieldValue.k # "list"
  THEN Outcome(<<FormatError(fieldName, fieldValue, parent, at)>>, FALSE, NullV)
  ELSE
    LET bound == ListBoundErrors(validations, fieldName, Len(fieldValue.v), parent, at)
        parsed == parseElements(fieldValue.v, elementType, getFieldName(parent, fieldName), at)
        parsedValues == removeDuplicate(parsed.parsedValues)
        choice == validateListChoices(validations.Choices, parsedValues,
                                      getFieldName(parent, fieldName), at)
    IN IF bound # <<>> THEN Outcome(bound, FALSE, NullV)
       ELSE IF parsed.errors # <<>> THEN Outcome(parsed.errors, FALSE, NullV)
       ELSE IF choice # <<>> THEN Outcome(choice, FALSE, NullV)
       ELSE Outcome(<<>>, TRUE, ListV(parsedValues))

(***************************************************************************)
(* The run of one Validate call.  stack holds the validateJsonData         *)
(* invocations in progress, the outermost first.  Each frame has the       *)
(* structure it fills (obj, a value of type T), its validations map, its   *)
(* parent path, its own errors, the keys of the decoded object it has not  *)
(* iterated yet, and the nested call its current key is waiting for.       *)
(***************************************************************************)
VARIABLES pc, formType, initialForm, form, jsonData, errors, stack,
          calls, previous, helperCall

vars == <<pc, formType, initialForm, form, jsonData, errors, stack,
          calls, previous, helperCall>>

NoCall == [op |-> "none", fieldName |-> <<>>, valueList |-> <<>>, i |-> 0,
           sliceField |-> <<>>, old |-> NullV, errors |-> <<>>]

\* an invocation whose validations map is shared with the earlier
\* invocations for the same structure type: a key that an earlier call, or an
\* earlier element of the list, has iterated is no longer required
FrameShared(T, obj, data, parent, at) ==
  LET keysOf(val) == IF val.k = "map" THEN DOMAIN val.v ELSE {}
      seen ==
        IF at = <<>>
        THEN UNION {keysOf(previous[n].v) : n \in DOMAIN previous}
        ELSE IF stack # <<>> /\ stack[Len(stack)].call.op = "list"
        THEN UNION {keysOf(stack[Len(stack)].call.valueList[n]) :
                      n \in 1..stack[Len(stack)].call.i}
        ELSE {}
      fresh == getValidations(T)
  IN [T |-> T, obj |-> obj,
      validationsMap |-> [key \in DOMAIN fresh |->
                            IF key \in seen THEN [fresh[key] EXCEPT !.Required = FALSE]
                            ELSE fresh[key]],
      parent |-> parent, at |-> at, jsonData |-> data, decodedJson |-> EmptyMap,
      todo |-> {}, errors |-> <<>>, phase |-> "decode", call |-> NoCall]

\* validateJsonData(jsonData, form, validationsMap, parent) at its first line
\* getValidations of each structure type: the tags of a type are fixed, so
\* every call for the type gives the same new map
validationsMaps == [T \in RootForms \cup {"Person", "Node"} |-> getValidations(T)]

Frame(T, obj, data, parent, at) ==
  [T |-> T, obj |-> obj, validationsMap |-> validationsMaps[T], parent |-> parent,
   at |-> at, jsonData |-> data, decodedJson |-> EmptyMap, todo |-> {},
   errors |-> <<>>, phase |-> "decode", call |-> NoCall]

Top == stack[Len(stack)]

SetTop(frame) == [stack EXCEPT ![Len(stack)] = frame]

\* the frame is in the loop over the decoded keys and waits for no nested call
InKeyLoop == /\ pc = "run"
             /\ Top.phase = "keys"
             /\ Top.call.op = "none"

\* after a key, with its Required flag left as declared
AfterKeyKeepsRequired(frame, fieldName, errs) ==
  [frame EXCEPT !.errors = @ \o errs,
                !.todo = @ \ {fieldName}]

\* after a key: its errors are appended, it is iterated, it was seen
AfterKey(frame, fieldName, errs) ==
  [frame EXCEPT !.errors = @ \o errs,
                !.todo = @ \ {fieldName},
                !.validationsMap[fieldName].Required = FALSE]

\* after a key whose validator may have set the field of the form
AfterField(frame, fieldName, out) ==
  LET f == AfterKey(frame, fieldName, out.errors)
  IN IF out.set THEN [f EXCEPT !.obj[TitleCase(fieldName)] = out.value] ELSE f

(***************************************************************************)
(* The calls: the forms and the documents Validate is called with          *)
(***************************************************************************)
\* the most keys of a top-level document
MaxKeys == 2
\* the most elements of a list in a document
MaxListLen == 3

KName == LowerCase(NName)
KAge == LowerCase(NAge)
KSurname == <<"s","u","r","n","a","m","e">>

ListsOver(elements, n) == UNION {[1..m -> elements] : m \in 0..n}

PersonNamed == OneKey(KName, StrV(Tab))
PersonAged == OneKey(KAge, NumV(260))
PersonBad == Merge(OneKey(KName, ListV(<<>>)), OneKey(KSurname, NumV(10)))
PersonPartial == Merge(PersonAged, OneKey(KSurname, NumV(10)))

\* the values a document may give to a key, by the declared type of its field
ElementCandidates(type) ==
  CASE type = TStringList -> {StrV(Tab), NumV(120), ListV(<<>>)}
    [] type = TIntList -> {NumV(10), StrV(<<"1">>), NumV(20), NumV(30)}
    [] type = TFloatList -> {NumV(15), StrV(Tab)}
    [] type = TStructList -> {MapV(PersonNamed), MapV(PersonPartial), StrV(Tab)}

Candidates(type) ==
  CASE type = TString ->
         {StrV(<<>>), StrV(Tab), StrV(Tabc), StrV(Tabcd),
          NumV(120), NumV(10000000), BoolV(FALSE), ListV(<<>>)}
    [] type = TInt ->
         {NumV(0), NumV(10), NumV(20), NumV(100), NumV(110), NumV(15), StrV(<<"3">>),
          StrV(<<"1",".","0">>), NumV(-10)}
    [] type = TFloat ->
         {NumV(10), NumV(15), NumV(20), NumV(25), NumV(30), NumV(40),
          StrV(<<"1",".","5">>), StrV(Tab)}
    [] type = TBool ->
         {BoolV(TRUE), StrV(TrueText), NumV(10), NumV(1230), NullV}
    [] type = TStruct ->
         {MapV(EmptyMap), MapV(PersonNamed), MapV(PersonAged), MapV(PersonBad),
          MapV(PersonPartial), MapV(Merge(PersonNamed, PersonAged)),
          StrV(Tab), ListV(<<>>), NullV}
    [] type \in {TStringList, TIntList, TFloatList, TStructList} ->
         {ListV(xs) : xs \in ListsOver(ElementCandidates(type), MaxListLen)}
         \cup {MapV(EmptyMap), StrV(Tab), NumV(10), BoolV(TRUE), NullV}
    [] OTHER -> {StrV(Tab), NullV}

\* the values of a key that no field declares
UnknownCandidates == {StrV(Tab)}

\* objects for a structure that refers to itself, nested once, twice and
\* three times
KNext == LowerCase(NNext)
NodeChain == Merge(PersonNamed, OneKey(KNext, MapV(PersonNamed)))
NodeDeep == OneKey(KNext, MapV(OneKey(KNext, MapV(OneKey(KNext, NullV)))))
NodeCandidates == {MapV(NodeChain), MapV(NodeDeep), MapV(OneKey(KNext, MapV(NodeChain)))}

KeyCandidates(T, key) ==
  IF key \in DOMAIN getValidations(T)
  THEN IF T = "Node" /\ key = KNext
       THEN Candidates(TStruct) \cup NodeCandidates
       ELSE Candidates(getValidations(T)[key].Type)
  ELSE UnknownCandidates

RECURSIVE ObjectsOver(_, _)
ObjectsOver(T, keys) ==
  IF keys = {} THEN {EmptyMap}
  ELSE LET key == CHOOSE kk \in keys : TRUE
       IN {Merge(OneKey(key, val), rest) :
             val \in KeyCandidates(T, key), rest \in ObjectsOver(T, keys \ {key})}

Objects(T) ==
  UNION {ObjectsOver(T, keys) :
           keys \in {ks \in SUBSET ((DOMAIN getValidations(T)) \cup {KSurname}) :
                       Cardinality(ks) <= MaxKeys}}

\* the documents: malformed text, values that are no object, objects
Documents(T) ==
  {Malformed}
  \cup {Marshal(val) : val \in {ListV(<<>>), StrV(Tab), NumV(10), BoolV(TRUE), NullV}}
  \cup {Marshal(MapV(m)) : m \in Objects(T)}

\* no call of TitleCase or LowerCase on its own is in progress
NoHelperCall == [op |-> "none", str |-> <<>>, outcome |-> "none", result |-> <<>>]

\* a form the caller has filled before the call: every field holds a value
OldPerson == StructV([name \in FieldNames("Person") |->
                        IF name = NName THEN StrV(<<"o">>) ELSE IntV(7)])

OldValue(type) ==
  CASE type = TString -> StrV(<<"o">>)
    [] type = TInt -> IntV(7)
    [] type = TFloat -> NumV(77)
    [] type = TBool -> BoolV(FALSE)
    [] type = TStruct -> OldPerson
    [] type = TStringList -> ListV(<<StrV(<<"o">>)>>)
    [] type = TIntList -> ListV(<<IntV(7)>>)
    [] type = TFloatList -> ListV(<<NumV(77)>>)
    [] type = TStructList -> ListV(<<OldPerson>>)
    [] OTHER -> StrV(<<"o">>)

OldNode == StructV([name \in FieldNames("Node") |->
                      IF name = NName THEN StrV(<<"o">>) ELSE NullV])

FilledForm(T) ==
  [name \in FieldNames(T) |->
     IF FieldByName(T, name).Elem = "Node" THEN OldNode
     ELSE OldValue(getValidations(T)[LowerCase(name)].Type)]

Init ==
  /\ pc = "idle"
  /\ formType \in RootForms
  /\ form \in {ZeroStruct(formType), FilledForm(formType)}
  /\ initialForm = form
  /\ jsonData = Malformed
  /\ errors = <<>>
  /\ stack = <<>>
  /\ calls = 0
  /\ previous = <<>>
  /\ helperCall = NoHelperCall

(***************************************************************************)
(* jsonValidator.go: Validate and validateJsonData                         *)
(***************************************************************************)
\* Validate(jsonData, form): the validations of the form are read and
\* validateJsonData is entered with an empty parent
\* the documents of each form
FormDocuments == [T \in RootForms \cup {"Node"} |-> Documents(T)]

Validate ==
  /\ pc = "idle"
  /\ \E data \in FormDocuments[formType] :
       /\ jsonData' = data
       /\ stack' = <<Frame(formType, form, data, <<>>, <<>>)>>
  /\ pc' = "run"
  /\ errors' = <<>>
  /\ UNCHANGED <<formType, initialForm, form, calls, previous, helperCall>>

\* 2) json.Unmarshal fails: the one error of the invocation, Field "json"
DecodeError ==
  /\ pc = "run"
  /\ Top.phase = "decode"
  /\ UnmarshalFails(Top.jsonData)
  /\ stack' = SetTop([Top EXCEPT
       !.errors = <<ValidationError(<<"j","s","o","n">>,
                                    Msg("InvalidFormat", <<Top.jsonData>>), Top.at)>>,
       !.phase = "return"])
  /\ UNCHANGED <<pc, formType, initialForm, form, jsonData, errors, calls, previous, helperCall>>

\* 2) json.Unmarshal succeeds: the keys of decodedJson are to be iterated
Decode ==
  /\ pc = "run"
  /\ Top.phase = "decode"
  /\ ~UnmarshalFails(Top.jsonData)
  /\ stack' = SetTop([Top EXCEPT
       !.decodedJson = UnmarshalMap(Top.jsonData),
       !.todo = DOMAIN UnmarshalMap(Top.jsonData),
       !.phase = "keys"])
  /\ UNCHANGED <<pc, formType, initialForm, form, jsonData, errors, calls, previous, helperCall>>

\* 3.1) a key without validations: InvalidField, and on to the next key
\* an undeclared key that ends the loop over the keys
InvalidFieldKeyBreaks ==
  /\ InKeyLoop
  /\ \E fieldName \in Top.todo :
       /\ fieldName \notin DOMAIN Top.validationsMap
       /\ stack' = SetTop([Top EXCEPT
            !.errors = Append(@, ValidationError(getFieldName(Top.parent, fieldName),
                                                 Msg("InvalidField", <<>>),
                                                 Append(Top.at, AtKey(fieldName)))),
            !.todo = {}])
  /\ UNCHANGED <<pc, formType, initialForm, form, jsonData, errors, calls, previous, helperCall>>

InvalidFieldKey ==
  /\ InKeyLoop
  /\ \E fieldName \in Top.todo :
       /\ fieldName \notin DOMAIN Top.validationsMap
       /\ stack' = SetTop([Top EXCEPT
            !.errors = Append(@, ValidationError(getFieldName(Top.parent, fieldName),
                                                 Msg("InvalidField", <<>>),
                                                 Append(Top.at, AtKey(fieldName)))),
            !.todo = @ \ {fieldName}])
  /\ UNCHANGED <<pc, formType, initialForm, form, jsonData, errors, calls, previous, helperCall>>

\* the keys of the frame that have validations of one of the types
KeysOfType(types) ==
  {fieldName \in Top.todo :
     /\ fieldName \in DOMAIN Top.validationsMap
     /\ Top.validationsMap[fieldName].Type \in types}

\* 3.2), 3.3) parseField, case "string"
StringKey ==
  /\ InKeyLoop
  /\ \E fieldName \in KeysOfType({TString}) :
       stack' = SetTop(AfterField(Top, fieldName,
                  validateString(Top.validationsMap[fieldName], fieldName,
                                 Top.decodedJson[fieldName], Top.parent,
                                 Append(Top.at, AtKey(fieldName)))))
  /\ UNCHANGED <<pc, formType, initialForm, form, jsonData, errors, calls, previous, helperCall>>

\* parseField, case "int"
IntKey ==
  /\ InKeyLoop
  /\ \E fieldName \in KeysOfType({TInt}) :
       stack' = SetTop(AfterField(Top, fieldName,
                  validateInt(Top.validationsMap[fieldName], fieldName,
                              Top.decodedJson[fieldName], Top.parent,
                              Append(Top.at, AtKey(fieldName)))))
  /\ UNCHANGED <<pc, formType, initialForm, form, jsonData, errors, calls, previous, helperCall>>

\* parseField, case "float"
FloatKey ==
  /\ InKeyLoop
  /\ \E fieldName \in KeysOfType({TFloat}) :
       stack' = SetTop(AfterField(Top, fieldName,
                  validateFloat(Top.validationsMap[fieldName], fieldName,
                                Top.decodedJson[fieldName], Top.parent,
                                Append(Top.at, AtKey(fieldName)))))
  /\ UNCHANGED <<pc, formType, initialForm, form, jsonData, errors, calls, previous, helperCall>>

\* parseField, case "bool"
BoolKey ==
  /\ InKeyLoop
  /\ \E fieldName \in KeysOfType({TBool}) :
       stack' = SetTop(AfterField(Top, fieldName,
                  validateBool(fieldName, Top.decodedJson[fieldName], Top.parent,
                               Append(Top.at, AtKey(fieldName)))))
  /\ UNCHANGED <<pc, formType, initialForm, form, jsonData, errors, calls, previous, helperCall>>

\* parseField, cases "[]string", "[]int", "[]float"
ListOutcome(validations, fieldName, fieldValue, parent, at) ==
  CASE validations.Type = TStringList ->
         validateList(validations, fieldName, fieldValue, TString, parent, at)
    [] validations.Type = TIntList ->
         validateList(validations, fieldName, fieldValue, TInt, parent, at)
    [] validations.Type = TFloatList ->
         validateList(validations, fieldName, fieldValue, TFloat, parent, at)

\* a nil slice is what Go stores for a list without elements
AsSlice(out) ==
  IF out.set /\ out.value.v = <<>> THEN [out EXCEPT !.value = NullV] ELSE out

ListKey ==
  /\ InKeyLoop
  /\ \E fieldName \in KeysOfType({TStringList, TIntList, TFloatList}) :
       stack' = SetTop(AfterField(Top, fieldName,
                  AsSlice(ListOutcome(Top.validationsMap[fieldName], fieldName,
                                      Top.decodedJson[fieldName], Top.parent,
                                      Append(Top.at, AtKey(fieldName))))))
  /\ UNCHANGED <<pc, formType, initialForm, form, jsonData, errors, calls, previous, helperCall>>

\* parseField, default, with the Required flag of the field left as declared
UntypedKeyKeepsRequired ==
  /\ InKeyLoop
  /\ \E fieldName \in KeysOfType({<<>>}) :
       stack' = SetTop(AfterKeyKeepsRequired(Top, fieldName, <<>>))
  /\ UNCHANGED <<pc, formType, initialForm, form, jsonData, errors, calls, previous, helperCall>>

\* parseField, default: a field without a recognized type
UntypedKey ==
  /\ InKeyLoop
  /\ \E fieldName \in KeysOfType({<<>>}) :
       stack' = SetTop(AfterKey(Top, fieldName, <<>>))
  /\ UNCHANGED <<pc, formType, initialForm, form, jsonData, errors, calls, previous, helperCall>>

(***************************************************************************)
(* fieldsValidations.go: validateStruct, validateStructList and            *)
(* parseStructElements.  The frame that called keeps the call in its       *)
(* `call` field until the nested invocation returns.                       *)
(***************************************************************************)
\* validateStruct: the field is set to a new structure, the value is
\* marshalled and validateJsonData is entered with the path of the field
StructKey ==
  /\ InKeyLoop
  /\ \E fieldName \in KeysOfType({TStruct}) :
       LET elem == FieldByName(Top.T, TitleCase(fieldName)).Elem
           caller == [Top EXCEPT
                        !.validationsMap[fieldName].Required = FALSE,
                        !.obj[TitleCase(fieldName)] = StructV(ZeroStruct(elem)),
                        !.call = [NoCall EXCEPT !.op = "struct", !.fieldName = fieldName]]
       IN stack' = Append(SetTop(caller),
                          Frame(elem, ZeroStruct(elem), Marshal(Top.decodedJson[fieldName]),
                                getFieldName(Top.parent, fieldName),
                                Append(Top.at, AtKey(fieldName))))
  /\ UNCHANGED <<pc, formType, initialForm, form, jsonData, errors, calls, previous, helperCall>>

\* the elements field.Slice(0, n) gives after field.Grow(n): the elements
\* the field holds, then zero structures
SliceField(old, elem, n) ==
  [i \in 1..n |-> IF old.k = "list" /\ i <= Len(old.v) THEN old.v[i].v ELSE ZeroStruct(elem)]

\* validateStructList: a value that is no list, or a list of a wrong length,
\* is an error of the field; otherwise parseStructElements starts
StructListKey ==
  /\ InKeyLoop
  /\ \E fieldName \in KeysOfType({TStructList}) :
       LET validations == Top.validationsMap[fieldName]
           fieldValue == Top.decodedJson[fieldName]
           at == Append(Top.at, AtKey(fieldName))
           elem == FieldByName(Top.T, TitleCase(fieldName)).Elem
           old == Top.obj[TitleCase(fieldName)]
           bound == ListBoundErrors(validations, fieldName, Len(fieldValue.v), Top.parent, at)
       IN IF fieldValue.k # "list"
          THEN stack' = SetTop(AfterKey(Top, fieldName,
                                 <<FormatError(fieldName, fieldValue, Top.parent, at)>>))
          ELSE IF bound # <<>>
          THEN stack' = SetTop(AfterKey(Top, fieldName, bound))
          ELSE stack' = SetTop([Top EXCEPT
                 !.validationsMap[fieldName].Required = FALSE,
                 !.call = [op |-> "list", fieldName |-> fieldName,
                           valueList |-> fieldValue.v, i |-> 0,
                           sliceField |-> SliceField(old, elem, Len(fieldValue.v)),
                           old |-> old, errors |-> <<>>]])
  /\ UNCHANGED <<pc, formType, initialForm, form, jsonData, errors, calls, previous, helperCall>>

\* parseStructElements 3): the next element is marshalled and validated in
\* place, with the path field[i]
ElementCall ==
  /\ pc = "run"
  /\ Top.phase = "keys"
  /\ Top.call.op = "list"
  /\ Top.call.i < Len(Top.call.valueList)
  /\ LET c == Top.call
         elem == FieldByName(Top.T, TitleCase(c.fieldName)).Elem
     IN stack' = Append(stack,
          Frame(elem, c.sliceField[c.i + 1], Marshal(c.valueList[c.i + 1]),
                IndexName(getFieldName(Top.parent, c.fieldName), c.i),
                Append(Top.at, AtElem(c.fieldName, c.i))))
  /\ UNCHANGED <<pc, formType, initialForm, form, jsonData, errors, calls, previous, helperCall>>

\* what the field holds after parseStructElements: the slice when no element
\* had an error; otherwise what it held, grown, its elements validated in place
FieldAfterElements(c) ==
  LET n == Len(c.valueList) IN
  IF c.errors = <<>>
  THEN IF n = 0 /\ c.old.k = "nil" THEN NullV
       ELSE ListV([i \in 1..n |-> StructV(c.sliceField[i])])
  ELSE IF c.old.k = "nil" THEN (IF n = 0 THEN NullV ELSE ListV(<<>>))
       ELSE ListV([i \in 1..Len(c.old.v) |->
                     IF i <= n THEN StructV(c.sliceField[i]) ELSE c.old.v[i]])

\* parseStructElements 4), 5): all elements are done
ElementsDone ==
  /\ pc = "run"
  /\ Top.phase = "keys"
  /\ Top.call.op = "list"
  /\ Top.call.i = Len(Top.call.valueList)
  /\ LET c == Top.call
     IN stack' = SetTop([Top EXCEPT
          !.errors = @ \o c.errors,
          !.todo = @ \ {c.fieldName},
          !.obj[TitleCase(c.fieldName)] = FieldAfterElements(c),
          !.call = NoCall])
  /\ UNCHANGED <<pc, formType, initialForm, form, jsonData, errors, calls, previous, helperCall>>

\* the sequences that list every element of the set once
Orders(set) ==
  {order \in [1..Cardinality(set) -> set] :
     \A i, j \in 1..Cardinality(set) : order[i] = order[j] => i = j}

\* 4) the loop over the validations map, in the order the map gives: a
\* RequiredField error for every entry still required
CheckRequired ==
  /\ InKeyLoop
  /\ Top.todo = {}
  /\ \E order \in Orders({fieldName \in DOMAIN Top.validationsMap :
                            Top.validationsMap[fieldName].Required}) :
       stack' = SetTop([Top EXCEPT
         !.errors = @ \o [i \in DOMAIN order |->
                            ValidationError(getFieldName(Top.parent, order[i]),
                                            Msg("RequiredField", <<>>),
                                            Append(Top.at, AtKey(order[i])))],
         !.phase = "return"])
  /\ UNCHANGED <<pc, formType, initialForm, form, jsonData, errors, calls, previous, helperCall>>

\* a return to parseStructElements that ends the loop over the elements when
\* the element had an error
ReturnStopsElements ==
  /\ pc = "run"
  /\ Top.phase = "return"
  /\ Len(stack) > 1
  /\ LET callee == Top
         caller == stack[Len(stack) - 1]
         c == caller.call
         resumed ==
           IF c.op = "struct"
           THEN [caller EXCEPT
                   !.errors = @ \o callee.errors,
                   !.todo = @ \ {c.fieldName},
                   !.obj[TitleCase(c.fieldName)] = StructV(callee.obj),
                   !.call = NoCall]
           ELSE [caller EXCEPT
                   !.call.errors = @ \o callee.errors,
                   !.call.sliceField[c.i + 1] = callee.obj,
                   !.call.i = IF callee.errors = <<>> THEN @ + 1 ELSE Len(c.valueList)]
     IN stack' = Append(SubSeq(stack, 1, Len(stack) - 2), resumed)
  /\ UNCHANGED <<pc, formType, initialForm, form, jsonData, errors, calls, previous, helperCall>>

\* a return to validateStruct that keeps the fields of the nested structure
\* only when the nested invocation had no error
ReturnAllOrNothing ==
  /\ pc = "run"
  /\ Top.phase = "return"
  /\ Len(stack) > 1
  /\ LET callee == Top
         caller == stack[Len(stack) - 1]
         c == caller.call
         resumed ==
           IF c.op = "struct"
           THEN [caller EXCEPT
                   !.errors = @ \o callee.errors,
                   !.todo = @ \ {c.fieldName},
                   !.obj[TitleCase(c.fieldName)] =
                      IF callee.errors = <<>> THEN StructV(callee.obj)
                      ELSE StructV(ZeroStruct(callee.T)),
                   !.call = NoCall]
           ELSE [caller EXCEPT
                   !.call.errors = @ \o callee.errors,
                   !.call.sliceField[c.i + 1] = callee.obj,
                   !.call.i = @ + 1]
     IN stack' = Append(SubSeq(stack, 1, Len(stack) - 2), resumed)
  /\ UNCHANGED <<pc, formType, initialForm, form, jsonData, errors, calls, previous, helperCall>>

\* a nested invocation returns to validateStruct and its key is taken again
ReturnTakesKeyAgain ==
  /\ pc = "run"
  /\ Top.phase = "return"
  /\ Len(stack) > 1
  /\ LET callee == Top
         caller == stack[Len(stack) - 1]
         c == caller.call
         resumed ==
           IF c.op = "struct"
           THEN [caller EXCEPT !.call = NoCall]
           ELSE [caller EXCEPT
                   !.call.errors = @ \o callee.errors,
                   !.call.sliceField[c.i + 1] = callee.obj,
                   !.call.i = @ + 1]
     IN stack' = Append(SubSeq(stack, 1, Len(stack) - 2), resumed)
  /\ UNCHANGED <<pc, formType, initialForm, form, jsonData, errors, calls, previous, helperCall>>

\* 5) a nested invocation returns its errors to validateStruct or to
\* parseStructElements
Return ==
  /\ pc = "run"
  /\ Top.phase = "return"
  /\ Len(stack) > 1
  /\ LET callee == Top
         caller == stack[Len(stack) - 1]
         c == caller.call
         resumed ==
           IF c.op = "struct"
           THEN [caller EXCEPT
                   !.errors = @ \o callee.errors,
                   !.todo = @ \ {c.fieldName},
                   !.obj[TitleCase(c.fieldName)] = StructV(callee.obj),
                   !.call = NoCall]
           ELSE [caller EXCEPT
                   !.call.errors = @ \o callee.errors,
                   !.call.sliceField[c.i + 1] = callee.obj,
                   !.call.i = @ + 1]
     IN stack' = Append(SubSeq(stack, 1, Len(stack) - 2), resumed)
  /\ UNCHANGED <<pc, formType, initialForm, form, jsonData, errors, calls, previous, helperCall>>

\* Validate 4): the errors of the outermost invocation are returned; the
\* form holds what the invocations have set
Finish ==
  /\ pc = "run"
  /\ Top.phase = "return"
  /\ Len(stack) = 1
  /\ pc' = "done"
  /\ errors' = Top.errors
  /\ form' = Top.obj
  /\ stack' = <<>>
  /\ UNCHANGED <<formType, initialForm, jsonData, calls, previous, helperCall>>

Next ==
  \/ Validate
  \/ DecodeError
  \/ Decode
  \/ InvalidFieldKey
  \/ StringKey
  \/ IntKey
  \/ FloatKey
  \/ BoolKey
  \/ ListKey
  \/ UntypedKey
  \/ StructKey
  \/ StructListKey
  \/ ElementCall
  \/ ElementsDone
  \/ CheckRequired
  \/ Return
  \/ Finish

Spec == Init /\ [][Next]_vars

(***************************************************************************)
(* Validate called several times with forms of one structure type.         *)
(* previous holds the documents of the calls that have returned.           *)
(***************************************************************************)
\* the most calls of Validate in a row
MaxCalls == 2

\* the documents of the calls: malformed text, and objects with person and
\* personList given or not, their objects with the required name or without
CallDocuments ==
  LET persons == {MapV(PersonNamed), MapV(PersonPartial)}
      lists == {<<MapV(PersonNamed)>>,
                <<MapV(PersonNamed), MapV(PersonPartial)>>,
                <<MapV(PersonPartial), MapV(PersonNamed)>>}
      withPerson == {EmptyMap} \cup {OneKey(LowerCase(NPerson), val) : val \in persons}
      withList == {EmptyMap} \cup {OneKey(LowerCase(NPersonList), ListV(xs)) : xs \in lists}
  IN {Malformed} \cup {Marshal(MapV(Merge(a, b))) : a \in withPerson, b \in withList}

InitCalls ==
  /\ pc = "idle"
  /\ formType = "nestedForm"
  /\ form = ZeroStruct(formType)
  /\ initialForm = form
  /\ jsonData = Malformed
  /\ errors = <<>>
  /\ stack = <<>>
  /\ calls = 0
  /\ previous = <<>>
  /\ helperCall = NoHelperCall

\* Validate(jsonData, form), the first time or after a call has returned,
\* with the form of the call before or with a new one
ValidateCall ==
  /\ pc \in {"idle", "done"}
  /\ calls < MaxCalls
  /\ \E data \in CallDocuments, target \in {form, ZeroStruct(formType)} :
       /\ jsonData' = data
       /\ form' = target
       /\ initialForm' = target
       /\ stack' = <<Frame(formType, target, data, <<>>, <<>>)>>
  /\ pc' = "run"
  /\ errors' = <<>>
  /\ calls' = calls + 1
  /\ previous' = IF pc = "done" THEN Append(previous, jsonData) ELSE previous
  /\ UNCHANGED <<formType, helperCall>>

NextCalls ==
  \/ ValidateCall
  \/ DecodeError
  \/ Decode
  \/ InvalidFieldKey
  \/ StringKey
  \/ IntKey
  \/ StructKey
  \/ StructListKey
  \/ ElementCall
  \/ ElementsDone
  \/ CheckRequired
  \/ Return
  \/ Finish

SpecCalls == InitCalls /\ [][NextCalls]_vars

(***************************************************************************)
(* One call of Validate on the forms with nested structures, one of them   *)
(* of a type that refers to itself.  A call that has started goes on until *)
(* it returns: nothing but the call itself runs, so every step that can be *)
(* taken is taken.                                                          *)
(***************************************************************************)
NestedForms == {"nestedForm", "Node"}

InitNested ==
  /\ pc = "idle"
  /\ formType \in NestedForms
  /\ form \in {ZeroStruct(formType), FilledForm(formType)}
  /\ initialForm = form
  /\ jsonData = Malformed
  /\ errors = <<>>
  /\ stack = <<>>
  /\ calls = 0
  /\ previous = <<>>
  /\ helperCall = NoHelperCall

NextNested ==
  \/ Validate
  \/ DecodeError
  \/ Decode
  \/ InvalidFieldKey
  \/ StringKey
  \/ IntKey
  \/ StructKey
  \/ StructListKey
  \/ ElementCall
  \/ ElementsDone
  \/ CheckRequired
  \/ Return
  \/ Finish

SpecNested == InitNested /\ [][NextNested]_vars /\ WF_vars(NextNested)

(***************************************************************************)
(* TitleCase and LowerCase called on their own, as the tests of             *)
(* jsonValidator_test.go call them, on texts with upper case, lower case    *)
(* and spaces                                                               *)
(***************************************************************************)
\* the most characters of a text given to TitleCase or LowerCase
MaxStrLen == 4

CaseChars == {"N", "a", " "}

CaseInputs == UNION {[1..n -> CaseChars] : n \in 0..MaxStrLen}

InitHelper ==
  /\ pc = "idle"
  /\ formType = "scalarForm"
  /\ form = ZeroStruct(formType)
  /\ initialForm = form
  /\ jsonData = Malformed
  /\ errors = <<>>
  /\ stack = <<>>
  /\ calls = 0
  /\ previous = <<>>
  /\ helperCall \in {[op |-> op, str |-> str, outcome |-> "called", result |-> <<>>] :
                       op \in {"TitleCase", "LowerCase"}, str \in CaseInputs}

TitleCaseReturn ==
  /\ helperCall.op = "TitleCase"
  /\ helperCall.outcome = "called"
  /\ helperCall' = [helperCall EXCEPT !.outcome = "returned",
                                      !.result = TitleCase(helperCall.str)]
  /\ UNCHANGED <<pc, formType, initialForm, form, jsonData, errors, stack, calls, previous>>

LowerCaseReturn ==
  /\ helperCall.op = "LowerCase"
  /\ helperCall.outcome = "called"
  /\ ~LowerCasePanics(helperCall.str)
  /\ helperCall' = [helperCall EXCEPT !.outcome = "returned",
                                      !.result = LowerCase(helperCall.str)]
  /\ UNCHANGED <<pc, formType, initialForm, form, jsonData, errors, stack, calls, previous>>

\* a[0] of an empty piece: index out of range
LowerCasePanic ==
  /\ helperCall.op = "LowerCase"
  /\ helperCall.outcome = "called"
  /\ LowerCasePanics(helperCall.str)
  /\ helperCall' = [helperCall EXCEPT !.outcome = "panicked"]
  /\ UNCHANGED <<pc, formType, initialForm, form, jsonData, errors, stack, calls, previous>>

NextHelper ==
  \/ TitleCaseReturn
  \/ LowerCaseReturn
  \/ LowerCasePanic

SpecHelper == InitHelper /\ [][NextHelper]_vars

(***************************************************************************)
(* validateIntType and validateBoolType called on their own, on the values  *)
(* a decoded document can hold and on native integers, on every build       *)
(***************************************************************************)
\* texts: decimal integers with and without sign, within and beyond the int,
\* other numbers, the boolean literals of strconv.ParseBool, other texts
CoerceTexts ==
  {<<>>, <<"3">>, <<"-","3">>, <<"+","3">>, <<"0">>, <<"1">>, <<"1","2",".","0">>,
   <<"1","2",".","3">>, Tab, Itoa(MaxInt), Itoa(MaxInt + 1), Itoa(MinInt), Itoa(MinInt - 1),
   TrueText, FormatBool(FALSE), <<"t">>, <<"T">>, <<"T","R","U","E">>, <<"T","r","u","e">>,
   <<"f">>, <<"F">>, <<"F","A","L","S","E">>, <<"F","a","l","s","e">>,
   <<"y","e","s">>, <<"t","R","U","E">>}

\* reals, in tenths: whole and not, within the int and beyond it
CoerceReals ==
  {0, 10, -10, 20, 123, 120, -15, 1230, 10000000,
   10 * (MaxInt + 1), 10 * MinInt, 20 * (MaxInt + 1), 20 * MinInt}

CoerceInputs ==
  {StrV(t) : t \in CoerceTexts}
  \cup {NumV(f) : f \in CoerceReals}
  \cup {IntV(i) : i \in {0, 1, 2, -7, MaxInt, MinInt}}
  \cup {BoolV(TRUE), BoolV(FALSE), MapV(EmptyMap), ListV(<<>>), NullV}

InitCoerce ==
  /\ pc = "idle"
  /\ formType = "scalarForm"
  /\ form = ZeroStruct(formType)
  /\ initialForm = form
  /\ jsonData = Malformed
  /\ errors = <<>>
  /\ stack = <<>>
  /\ calls = 0
  /\ previous = <<>>
  /\ helperCall \in {[op |-> op, build |-> build, arg |-> arg, outcome |-> "called",
                       result |-> [value |-> NullV, invalidFormat |-> FALSE]] :
                       op \in {"validateIntType", "validateBoolType"},
                       build \in Builds, arg \in CoerceInputs}

IntTypeReturn ==
  /\ helperCall.op = "validateIntType"
  /\ helperCall.outcome = "called"
  /\ helperCall' = [helperCall EXCEPT
                      !.outcome = "returned",
                      !.result = validateIntTypeOn(helperCall.build, helperCall.arg)]
  /\ UNCHANGED <<pc, formType, initialForm, form, jsonData, errors, stack, calls, previous>>

BoolTypeReturn ==
  /\ helperCall.op = "validateBoolType"
  /\ helperCall.outcome = "called"
  /\ helperCall' = [helperCall EXCEPT
                      !.outcome = "returned",
                      !.result = validateBoolType(helperCall.arg)]
  /\ UNCHANGED <<pc, formType, initialForm, form, jsonData, errors, stack, calls, previous>>

NextCoerce ==
  \/ IntTypeReturn
  \/ BoolTypeReturn

SpecCoerce == InitCoerce /\ [][NextCoerce]_vars

(***************************************************************************)
(* parseValidationTags called on its own, on the clauses of a tag in every  *)
(* order                                                                    *)
(***************************************************************************)
\* the most clauses of a tag
MaxClauses == 3

\* the clauses: types, one of them not recognized, bounds and choices that
\* parse as integers, as reals or not at all, and required
TagClauses ==
  {Clause(KwType, t) : t \in {TInt, TFloat, TString, TBool, TStruct, TIntList, <<"x">>}}
  \cup {Clause(KwMin, v) : v \in {<<"1">>, <<"1",".","5">>, <<"x">>}}
  \cup {Clause(KwMax, <<"2">>)}
  \cup {Clause(KwChoices, v) : v \in {<<"1",",","2">>, <<"x">>}}
  \cup {Clause(KwRequired, TrueText)}

Tags == UNION {[1..n -> TagClauses] : n \in 0..MaxClauses}

InitTags ==
  /\ pc = "idle"
  /\ formType = "scalarForm"
  /\ form = ZeroStruct(formType)
  /\ initialForm = form
  /\ jsonData = Malformed
  /\ errors = <<>>
  /\ stack = <<>>
  /\ calls = 0
  /\ previous = <<>>
  /\ helperCall \in {[op |-> "parseValidationTags", arg |-> tag, outcome |-> "called",
                       result |-> NewValidations] : tag \in Tags}

\* getValidations 2.3), 2.4): the tag is split and its clauses are parsed
ParseTagsReturn ==
  /\ helperCall.op = "parseValidationTags"
  /\ helperCall.outcome = "called"
  /\ helperCall' = [helperCall EXCEPT
                      !.outcome = "returned",
                      !.result = parseValidationTags(Split(Tag(helperCall.arg),
                                                           DefaultSeparator))]
  /\ UNCHANGED <<pc, formType, initialForm, form, jsonData, errors, stack, calls, previous>>

NextTags == ParseTagsReturn

SpecTags == InitTags /\ [][NextTags]_vars

(***************************************************************************)
(* What the claims are stated with.  These definitions read a document and *)
(* the declared validations on their own; they do not follow the frames.   *)
(***************************************************************************)
Done == pc = "done"

\* the document is the encoding of an object
IsObject(data) == data.wellFormed /\ data.v.k = "map"

\* the top-level decode fails: malformed text, or a list, a text, a number or
\* a boolean where the object is expected
DecodeFailure(data) == ~data.wellFormed \/ data.v.k \in {"list", "string", "float64", "bool"}

\* the keys and values of the decoded top-level object (none for null)
TopMap == IF jsonData.v.k = "map" THEN jsonData.v.v ELSE EmptyMap

\* the validations of the fields of every structure type, by key
ValidationTables == [T \in RootForms \cup {"Person", "Node"} |-> getValidations(T)]

Declared(T) == ValidationTables[T]

\* the structure type of the values of the struct and []struct fields
ElementTables ==
  [T \in RootForms \cup {"Person", "Node"} |->
     [key \in DOMAIN ValidationTables[T] |-> FieldByName(T, TitleCase(key)).Elem]]

ElemOf(T, key) == ElementTables[T][key]

ScalarTypes == {TString, TInt, TFloat, TBool}
ScalarListTypes == {TStringList, TIntList, TFloatList}

\* the coercion of a value to a scalar kind, or to the element kind of a list
Coerced(type, val) ==
  CASE type \in {TString, TStringList} -> validateStringType(val)
    [] type \in {TInt, TIntList} -> validateIntType(val)
    [] type \in {TFloat, TFloatList} -> validateFloatType(val)
    [] type = TBool -> validateBoolType(val)

\* what a bound of the kind measures, in tenths: the length of a text or of
\* a list, the value of a number
Measure(type, cv) ==
  CASE type = TString -> 10 * Len(cv.v)
    [] type = TInt -> 10 * cv.v
    [] type = TFloat -> cv.v
    [] OTHER -> 0

BelowMin(vs, measure) == vs.Min # 0 /\ measure < vs.Min
AboveMax(vs, measure) == vs.Max # 0 /\ measure > vs.Max
OutsideChoices(vs, cv) == vs.Choices # <<>> /\ cv \notin Range(vs.Choices)

AsList(f) == IF f.k = "list" THEN f.v ELSE <<>>

\* xs has every value of ys, and none twice
IsDedupOf(xs, ys) ==
  /\ Range(xs) = Range(ys)
  /\ \A i, j \in DOMAIN xs : xs[i] = xs[j] => i = j

RECURSIVE ValidValue(_, _, _), ValidObject(_, _)
\* the value coerces to the declared kind of the key and satisfies its bounds
\* and choices, and so do the values nested in it
ValidValue(T, key, val) ==
  LET vs == Declared(T)[key] IN
  CASE vs.Type \in ScalarTypes ->
         LET c == Coerced(vs.Type, val)
         IN /\ ~c.invalidFormat
            /\ ~BelowMin(vs, Measure(vs.Type, c.value))
            /\ ~AboveMax(vs, Measure(vs.Type, c.value))
            /\ ~OutsideChoices(vs, c.value)
    [] vs.Type \in ScalarListTypes ->
         /\ val.k = "list"
         /\ ~BelowMin(vs, 10 * Len(val.v))
         /\ ~AboveMax(vs, 10 * Len(val.v))
         /\ \A i \in DOMAIN val.v :
              /\ ~Coerced(vs.Type, val.v[i]).invalidFormat
              /\ ~OutsideChoices(vs, Coerced(vs.Type, val.v[i]).value)
    [] vs.Type = TStruct ->
         /\ val.k = "map"
         /\ ValidObject(ElemOf(T, key), val.v)
    [] vs.Type = TStructList ->
         /\ val.k = "list"
         /\ ~BelowMin(vs, 10 * Len(val.v))
         /\ ~AboveMax(vs, 10 * Len(val.v))
         /\ \A i \in DOMAIN val.v :
              /\ val.v[i].k = "map"
              /\ ValidObject(ElemOf(T, key), val.v[i].v)
    [] OTHER -> FALSE

\* every key is declared and valid, and every required field is present
ValidObject(T, m) ==
  /\ DOMAIN m \subseteq DOMAIN Declared(T)
  /\ \A key \in DOMAIN m : ValidValue(T, key, m[key])
  /\ \A key \in DOMAIN Declared(T) : Declared(T)[key].Required => key \in DOMAIN m

RECURSIVE HoldsValue(_, _, _, _, _), HoldsObject(_, _, _, _)
\* the field f holds the coerced value; a scalar list as it is coerced when
\* exact, with its duplicate values removed otherwise
HoldsValue(T, key, val, f, exact) ==
  LET vs == Declared(T)[key] IN
  CASE vs.Type \in ScalarTypes -> f = Coerced(vs.Type, val).value
    [] vs.Type \in ScalarListTypes ->
         LET cs == [i \in DOMAIN val.v |-> Coerced(vs.Type, val.v[i]).value]
         IN /\ f.k \in {"list", "nil"}
            /\ IF exact THEN AsList(f) = cs ELSE IsDedupOf(AsList(f), cs)
    [] vs.Type = TStruct ->
         /\ f.k = "struct"
         /\ HoldsObject(ElemOf(T, key), val.v, f.v, exact)
    [] vs.Type = TStructList ->
         /\ f.k \in {"list", "nil"}
         /\ Len(AsList(f)) = Len(val.v)
         /\ \A i \in DOMAIN val.v :
              HoldsObject(ElemOf(T, key), val.v[i].v, AsList(f)[i].v, exact)
    [] OTHER -> FALSE

HoldsObject(T, m, obj, exact) ==
  \A key \in DOMAIN m : HoldsValue(T, key, m[key], obj[TitleCase(key)], exact)

ValidCall == Done /\ IsObject(jsonData) /\ ValidObject(formType, TopMap)

\* C1 as stated: for a valid document, Validate returns no error and every
\* field named in the document equals the coerced value, a list element by
\* element.
C1_AsStated ==
  ValidCall => errors = <<>> /\ HoldsObject(formType, TopMap, form, TRUE)

\* C1: for a valid document, Validate returns no error and every field named
\* in the document equals the coerced value, where a scalar list holds the
\* coerced values with no value twice.
C1_ValidInput ==
  ValidCall => errors = <<>> /\ HoldsObject(formType, TopMap, form, FALSE)

\* a valid document with a text twice in a list has been validated, and
\* the list is committed with the text once
C1_Witness ==
  /\ ValidCall
  /\ formType = "listForm"
  /\ TopMap = (LowerCase(NOwners) :> ListV(<<StrV(Tab), StrV(Tab)>>))
              @@ (LowerCase(NPreviousPrices) :> ListV(<<NumV(15)>>))
  /\ errors = <<>>
  /\ form[NOwners] = ListV(<<StrV(Tab)>>)

\* the text of a place: the keys joined by ".", an index as [i]
Render(at) ==
  Join([n \in DOMAIN at |->
          at[n].key \o (IF at[n].idx >= 0 THEN <<"[">> \o Itoa(at[n].idx) \o <<"]">> ELSE <<>>)],
       <<".">>)

AsMap(val) == IF val.k = "map" THEN val.v ELSE EmptyMap

RECURSIVE Levels(_, _, _)
\* the objects of the document that are decoded against a structure type:
\* the object itself, the objects (or null) given to its struct fields, and
\* the objects (or null) in the lists given to its []struct fields when the
\* list has an allowed length
Levels(T, m, prefix) ==
  {[T |-> T, m |-> m, at |-> prefix]}
  \cup UNION {
    LET vs == Declared(T)[key]
        val == m[key]
    IN CASE vs.Type = TStruct /\ val.k \in {"map", "nil"} ->
              Levels(ElemOf(T, key), AsMap(val), Append(prefix, AtKey(key)))
         [] /\ vs.Type = TStructList
            /\ val.k = "list"
            /\ ~BelowMin(vs, 10 * Len(val.v))
            /\ ~AboveMax(vs, 10 * Len(val.v)) ->
              UNION {IF val.v[i].k \in {"map", "nil"}
                     THEN Levels(ElemOf(T, key), AsMap(val.v[i]),
                                 Append(prefix, AtElem(key, i - 1)))
                     ELSE {} : i \in DOMAIN val.v}
         [] OTHER -> {}
    : key \in (DOMAIN m) \cap (DOMAIN Declared(T))}

\* the call has returned and its document was decoded
Decoded == Done /\ ~DecodeFailure(jsonData)

AllLevels == Levels(formType, TopMap, <<>>)

\* the returned errors with the template and the Field
ErrorsWith(tmpl, field) ==
  {i \in DOMAIN errors : errors[i].Message.tmpl = tmpl /\ errors[i].Field = field}

\* the returned errors about the place
ErrorsAt(at) == {i \in DOMAIN errors : errors[i].at = at}

JsonText == <<"j","s","o","n">>

\* C2: when the top-level decode fails, the one error returned has Field
\* "json" and the InvalidFormat message with the input, and the form is as
\* it was before the call.
C2_DecodeFailure ==
  (Done /\ DecodeFailure(jsonData)) =>
    /\ Len(errors) = 1
    /\ errors[1].Field = JsonText
    /\ errors[1].Message = Msg("InvalidFormat", <<jsonData>>)
    /\ form = initialForm

\* a list was given to a filled form with required fields
C2_Witness ==
  /\ Done
  /\ jsonData = Marshal(ListV(<<>>))
  /\ formType = "scalarForm"
  /\ initialForm = FilledForm(formType)

\* the places of the required fields that a decoded object has no key for
MissingRequired ==
  UNION {{Append(L.at, AtKey(key)) :
            key \in {kk \in DOMAIN Declared(L.T) :
                       Declared(L.T)[kk].Required /\ kk \notin DOMAIN L.m}}
         : L \in AllLevels}

RECURSIVE RequiredUnset(_, _, _, _)
\* the fields of the absent required keys are as before, in the form and in
\* the structures newly set on its struct fields
RequiredUnset(T, m, obj, before) ==
  /\ \A key \in DOMAIN Declared(T) :
       (Declared(T)[key].Required /\ key \notin DOMAIN m)
         => obj[TitleCase(key)] = before[TitleCase(key)]
  /\ \A key \in (DOMAIN m) \cap (DOMAIN Declared(T)) :
       (Declared(T)[key].Type = TStruct /\ m[key].k \in {"map", "nil"})
         => /\ obj[TitleCase(key)].k = "struct"
            /\ RequiredUnset(ElemOf(T, key), AsMap(m[key]), obj[TitleCase(key)].v,
                             ZeroStruct(ElemOf(T, key)))

\* C3: at every level, there is one RequiredField error for each required
\* field whose key is absent, none for any other field, and the fields of
\* the absent keys are left as they were.
C3_Required ==
  Decoded =>
    /\ \A at \in MissingRequired :
         Cardinality(ErrorsWith("RequiredField", Render(at))) = 1
    /\ \A i \in DOMAIN errors :
         errors[i].Message.tmpl = "RequiredField"
           => \E at \in MissingRequired : errors[i].Field = Render(at)
    /\ RequiredUnset(formType, TopMap, form, initialForm)

\* a required field is absent at the top level and another inside a nested
\* object, beside a key that is not declared
C3_Witness ==
  /\ Decoded
  /\ formType = "nestedForm"
  /\ \E at \in MissingRequired : Len(at) = 1
  /\ \E at \in MissingRequired : Len(at) = 2
  /\ \E i \in DOMAIN errors : errors[i].Message.tmpl = "InvalidField"

\* the places of the keys that the structure of their level does not declare
UnknownKeys ==
  UNION {{Append(L.at, AtKey(key)) : key \in (DOMAIN L.m) \ (DOMAIN Declared(L.T))}
         : L \in AllLevels}

RECURSIVE SiblingsCommitted(_, _, _)
\* every declared key with a valid value is committed, in the object and in
\* the objects given to its struct fields
SiblingsCommitted(T, m, obj) ==
  \A key \in (DOMAIN m) \cap (DOMAIN Declared(T)) :
    /\ ValidValue(T, key, m[key]) => HoldsValue(T, key, m[key], obj[TitleCase(key)], FALSE)
    /\ (Declared(T)[key].Type = TStruct /\ m[key].k = "map")
         => /\ obj[TitleCase(key)].k = "struct"
            /\ SiblingsCommitted(ElemOf(T, key), m[key].v, obj[TitleCase(key)].v)

HasErrorAbout(prefix, key) ==
  \E i \in DOMAIN errors :
    /\ Len(errors[i].at) > Len(prefix)
    /\ SubSeq(errors[i].at, 1, Len(prefix)) = prefix
    /\ errors[i].at[Len(prefix) + 1].key = key

RECURSIVE FrameKept(_, _, _, _, _)
\* a scalar or scalar-list field with an error about it, or with no key in
\* the object, is as before; so in the structures set on the struct fields
FrameKept(T, m, obj, before, prefix) ==
  /\ \A key \in DOMAIN Declared(T) :
       (/\ Declared(T)[key].Type \in ScalarTypes \cup ScalarListTypes
        /\ (key \notin DOMAIN m \/ HasErrorAbout(prefix, key)))
         => obj[TitleCase(key)] = before[TitleCase(key)]
  /\ \A key \in (DOMAIN m) \cap (DOMAIN Declared(T)) :
       (Declared(T)[key].Type = TStruct /\ m[key].k \in {"map", "nil"})
         => /\ obj[TitleCase(key)].k = "struct"
            /\ FrameKept(ElemOf(T, key), AsMap(m[key]), obj[TitleCase(key)].v,
                         ZeroStruct(ElemOf(T, key)), Append(prefix, AtKey(key)))

ScalarValues ==
  UNION {{[at |-> Append(L.at, AtKey(key)), vs |-> Declared(L.T)[key], val |-> L.m[key]] :
            key \in {kk \in (DOMAIN L.m) \cap (DOMAIN Declared(L.T)) :
                       Declared(L.T)[kk].Type \in ScalarTypes}}
         : L \in AllLevels}

MinTemplate(type) == IF type = TString THEN "InvalidMinString" ELSE "InvalidMinNumber"
MaxTemplate(type) == IF type = TString THEN "InvalidMaxString" ELSE "InvalidMaxNumber"

\* the violations of a scalar value, by the name of their message
Violations(vs, val) ==
  LET c == Coerced(vs.Type, val) IN
  IF c.invalidFormat
  THEN {"InvalidFormat"}
  ELSE {MinTemplate(vs.Type) : x \in {1} \cap {IF BelowMin(vs, Measure(vs.Type, c.value)) THEN 1 ELSE 0}}
       \cup {MaxTemplate(vs.Type) : x \in {1} \cap {IF AboveMax(vs, Measure(vs.Type, c.value)) THEN 1 ELSE 0}}
       \cup {"InvalidChoice" : x \in {1} \cap {IF OutsideChoices(vs, c.value) THEN 1 ELSE 0}}

\* C6: the errors about a scalar value are the InvalidFormat error alone when
\* the coercion fails, and otherwise one error for each of the min, max and
\* choice violations that apply, with no InvalidFormat error.
C6_ErrorsCollected ==
  Decoded =>
    \A s \in ScalarValues :
      /\ {errors[i].Message.tmpl : i \in ErrorsAt(s.at)} = Violations(s.vs, s.val)
      /\ Cardinality(ErrorsAt(s.at)) = Cardinality(Violations(s.vs, s.val))

\* a number below its min, above its max and outside its choices at once,
\* and a value of another field that does not coerce
C6_Witness ==
  /\ Decoded
  /\ \E s \in ScalarValues :
       Violations(s.vs, s.val) = {"InvalidMinNumber", "InvalidMaxNumber", "InvalidChoice"}
  /\ \E s \in ScalarValues : Violations(s.vs, s.val) = {"InvalidFormat"}

\* the bound as the message of the kind carries it: a whole number for a
\* text or an integer, the number itself for a real
BoundArg(type, bound) == IF type = TFloat THEN NumV(bound) ELSE IntV(bound \div 10)

C8_Choices ==
  Decoded =>
    \A s \in ScalarValues :
      ~Coerced(s.vs.Type, s.val).invalidFormat =>
        LET cv == Coerced(s.vs.Type, s.val).value
            choiceErrors == {i \in ErrorsAt(s.at) : errors[i].Message.tmpl = "InvalidChoice"}
        IN /\ (choiceErrors # {}) <=> (s.vs.Choices # <<>> /\ cv \notin Range(s.vs.Choices))
           /\ Cardinality(choiceErrors) <= 1
           /\ \A i \in choiceErrors :
                /\ errors[i].Message = Msg("InvalidChoice", <<cv, ListV(s.vs.Choices)>>)
                /\ errors[i].Field = Render(s.at)

\* a text that is one of the choices and is committed, beside a real within
\* its bounds that is none of the choices
C8_Witness ==
  /\ Decoded
  /\ formType = "scalarForm"
  /\ TopMap = (LowerCase(NName) :> StrV(Tab)) @@ (LowerCase(NPrice) :> NumV(25))
  /\ form[NName] = StrV(Tab)
  /\ \E i \in DOMAIN errors :
       /\ errors[i].Field = LowerCase(NPrice)
       /\ errors[i].Message.tmpl = "InvalidChoice"
       /\ errors[i].Message.args[1] = NumV(25)

\* C9: the Field of every error about a place in the document is the path
\* of the place: the keys joined by ".", an element as key[i].
C9_PathFormat ==
  Done => \A i \in DOMAIN errors :
            errors[i].at # <<>> => errors[i].Field = Render(errors[i].at)

\* C10: a struct field given a value that is not an object has exactly one
\* error under it, the InvalidFormat error at the path of the field.
C10_NotAnObject ==
  Decoded =>
    \A key \in (DOMAIN TopMap) \cap (DOMAIN Declared(formType)) :
      (Declared(formType)[key].Type = TStruct /\ TopMap[key].k # "map") =>
        /\ Cardinality({i \in DOMAIN errors : errors[i].at[1].key = key}) = 1
        /\ \A i \in DOMAIN errors :
             errors[i].at[1].key = key =>
               /\ errors[i].Message.tmpl = "InvalidFormat"
               /\ errors[i].Field = key

\* the keys of the top-level object given to a []struct field
StructListKeys ==
  {key \in (DOMAIN TopMap) \cap (DOMAIN Declared(formType)) :
     Declared(formType)[key].Type = TStructList}

\* some returned error is about element i or something in it, for some i
HasElementError(key) ==
  \E i \in DOMAIN errors :
    /\ errors[i].at # <<>>
    /\ errors[i].at[1].key = key
    /\ errors[i].at[1].idx >= 0

\* C11: a []struct field given a list holds the validated elements when no
\* element had an error, and holds no element when some element had one.
C11_AllOrNothing ==
  Decoded =>
    \A key \in StructListKeys :
      TopMap[key].k = "list" =>
        /\ ~HasErrorAbout(<<>>, key)
             => /\ Len(AsList(form[TitleCase(key)])) = Len(TopMap[key].v)
                /\ HoldsValue(formType, key, TopMap[key], form[TitleCase(key)], FALSE)
        /\ HasElementError(key) => AsList(form[TitleCase(key)]) = <<>>

\* the keys of the top-level object given to a scalar-list field
ScalarListKeys ==
  {key \in (DOMAIN TopMap) \cap (DOMAIN Declared(formType)) :
     Declared(formType)[key].Type \in ScalarListTypes}

\* the coerced elements of a list value, in the order of the list
CoercedList(type, val) == [i \in DOMAIN val.v |-> Coerced(type, val.v[i]).value]

\* the first occurrence of each value of cs, in the order of cs
FirstOccurrences(cs) ==
  LET keep == {i \in DOMAIN cs : \A j \in DOMAIN cs : j < i => cs[j] # cs[i]}
  IN [n \in 1..Cardinality(keep) |->
        cs[CHOOSE i \in keep : Cardinality({j \in keep : j <= i}) = n]]

\* C12: a valid scalar list is committed as the first occurrences of its
\* coerced values, in their order: no value twice, the same values as the
\* coerced list, and unchanged by another de-duplication.
C12_Dedup ==
  Decoded =>
    \A key \in ScalarListKeys :
      ValidValue(formType, key, TopMap[key]) =>
        LET cs == CoercedList(Declared(formType)[key].Type, TopMap[key])
            committed == AsList(form[TitleCase(key)])
        IN /\ ~HasErrorAbout(<<>>, key)
           /\ committed = FirstOccurrences(cs)
           /\ \A i, j \in DOMAIN committed : committed[i] = committed[j] => i = j
           /\ Range(committed) = Range(cs)
           /\ removeDuplicate(committed) = committed

\* the integer list [1, 2, "1"] is committed as [1, 2]
C12_Witness ==
  /\ Decoded
  /\ formType = "mixedForm"
  /\ LowerCase(NPreviousCodes) \in DOMAIN TopMap
  /\ TopMap[LowerCase(NPreviousCodes)] = ListV(<<NumV(10), NumV(20), StrV(<<"1">>)>>)
  /\ form[NPreviousCodes] = ListV(<<IntV(1), IntV(2)>>)

\* the decimal text of a number counted in tenths: 12, 12.3, 1000000
DecimalText(f) ==
  LET a == IF f < 0 THEN 0 - f ELSE f
      body == NatToText(a \div 10)
              \o (IF a % 10 = 0 THEN <<>> ELSE <<".", Digits[(a % 10) + 1]>>)
  IN IF f < 0 THEN <<"-">> \o body ELSE body

\* C13: a scalar value coerces as its other representations do: a text that
\* is the decimal text of a number as the number (for an integer and a real
\* field), a number as its decimal text (for a text field), a boolean as its
\* text (for a boolean field).
C13_SameValue ==
  Decoded =>
    \A s \in ScalarValues :
      /\ (/\ s.vs.Type \in {TInt, TFloat}
          /\ s.val.k = "string"
          /\ ParseFloatOk(s.val.v)
          /\ ~Coerced(s.vs.Type, NumV(ParseFloatVal(s.val.v))).invalidFormat)
           => Coerced(s.vs.Type, s.val) = Coerced(s.vs.Type, NumV(ParseFloatVal(s.val.v)))
      /\ (s.vs.Type = TString /\ s.val.k = "float64")
           => Coerced(TString, s.val) = Coerced(TString, StrV(DecimalText(s.val.v)))
      /\ (s.vs.Type = TBool /\ s.val.k = "bool")
           => Coerced(TBool, s.val) = Coerced(TBool, StrV(FormatBool(s.val.v)))

\* the text with the first character, and every character after a space,
\* in lower case
FirstLowered(str) ==
  [i \in DOMAIN str |-> IF i = 1 \/ str[i - 1] = " " THEN ToLower(str[i]) ELSE str[i]]

\* C14: a call of LowerCase returns, and its result is the text with the
\* first character of every space-separated word in lower case.
C14_LowerCase ==
  (helperCall.op = "LowerCase" /\ helperCall.outcome # "called") =>
    /\ helperCall.outcome = "returned"
    /\ helperCall.result = FirstLowered(helperCall.str)

\* the keys of the top-level object given to a field of a list type
ListKeys ==
  {key \in (DOMAIN TopMap) \cap (DOMAIN Declared(formType)) :
     Declared(formType)[key].Type \in ScalarListTypes \cup {TStructList}}

\* the returned errors about the key of the top-level object, or below it
ErrorsAbout(key) ==
  {i \in DOMAIN errors : errors[i].at # <<>> /\ errors[i].at[1].key = key}

\* C15: a list field given a value that is no list has one error, the
\* InvalidFormat error with the value at the path of the field, and holds
\* what it held before the call.
C15_NotAList ==
  Decoded =>
    \A key \in ListKeys :
      TopMap[key].k # "list" =>
        /\ Cardinality(ErrorsAbout(key)) = 1
        /\ \A i \in ErrorsAbout(key) :
             /\ errors[i].at = <<AtKey(key)>>
             /\ errors[i].Field = key
             /\ errors[i].Message = Msg("InvalidFormat", <<TopMap[key]>>)
        /\ form[TitleCase(key)] = initialForm[TitleCase(key)]

\* a text list given a text and a real list given null, on a filled form
C15_Witness ==
  /\ Decoded
  /\ formType = "listForm"
  /\ initialForm = FilledForm(formType)
  /\ TopMap = (LowerCase(NOwners) :> StrV(Tab)) @@ (LowerCase(NPreviousPrices) :> NullV)
  /\ Len(errors) = 2
  /\ form = initialForm

\* C16: a list field given a list has the InvalidMinList error with Min
\* exactly when the list is shorter than a non-zero Min and the
\* InvalidMaxList error with Max exactly when it is longer than a non-zero
\* Max, at the path of the field; with either error there is no error about
\* an element and the field holds what it held before the call.
C16_ListLength ==
  Decoded =>
    \A key \in ListKeys :
      TopMap[key].k = "list" =>
        LET vs == Declared(formType)[key]
            n == Len(TopMap[key].v)
            minErrors == {i \in ErrorsAbout(key) : errors[i].Message.tmpl = "InvalidMinList"}
            maxErrors == {i \in ErrorsAbout(key) : errors[i].Message.tmpl = "InvalidMaxList"}
        IN /\ Cardinality(minErrors) = (IF vs.Min # 0 /\ 10 * n < vs.Min THEN 1 ELSE 0)
           /\ Cardinality(maxErrors) = (IF vs.Max # 0 /\ 10 * n > vs.Max THEN 1 ELSE 0)
           /\ \A i \in minErrors :
                /\ errors[i].Message = Msg("InvalidMinList", <<IntV(vs.Min \div 10)>>)
                /\ errors[i].Field = key
                /\ errors[i].at = <<AtKey(key)>>
           /\ \A i \in maxErrors :
                /\ errors[i].Message = Msg("InvalidMaxList", <<IntV(vs.Max \div 10)>>)
                /\ errors[i].Field = key
                /\ errors[i].at = <<AtKey(key)>>
           /\ (minErrors \cup maxErrors # {}) =>
                /\ ErrorsAbout(key) = minErrors \cup maxErrors
                /\ form[TitleCase(key)] = initialForm[TitleCase(key)]

\* a text list of three elements, one of them no text, against max=2 on a
\* filled form: the one error is the length error
C16_Witness ==
  /\ Decoded
  /\ formType = "listForm"
  /\ initialForm = FilledForm(formType)
  /\ TopMap = (LowerCase(NOwners) :> ListV(<<ListV(<<>>), StrV(Tab), StrV(Tab)>>))
  /\ Len(errors) = 1
  /\ errors[1].Message = Msg("InvalidMaxList", <<IntV(2)>>)
  /\ form = initialForm

\* a struct list as long as its Max is committed
C16_WitnessAtMax ==
  /\ Decoded
  /\ formType = "nestedForm"
  /\ LowerCase(NPersonList) \in DOMAIN TopMap
  /\ TopMap[LowerCase(NPersonList)] = ListV(<<MapV(PersonNamed), MapV(PersonNamed)>>)
  /\ Len(AsList(form[NPersonList])) = 2

\* the list value of the key has a length within the declared bounds
WithinLength(key) ==
  /\ TopMap[key].k = "list"
  /\ ~BelowMin(Declared(formType)[key], 10 * Len(TopMap[key].v))
  /\ ~AboveMax(Declared(formType)[key], 10 * Len(TopMap[key].v))

\* the indexes, counted from 1, of the elements that do not coerce
Failing(key) ==
  {i \in DOMAIN TopMap[key].v :
     Coerced(Declared(formType)[key].Type, TopMap[key].v[i]).invalidFormat}

C18_WitnessRepeated ==
  /\ Decoded
  /\ formType = "mixedForm"
  /\ LowerCase(NPreviousCodes) \in DOMAIN TopMap
  /\ TopMap[LowerCase(NPreviousCodes)] = ListV(<<NumV(30), NumV(30)>>)
  /\ Cardinality(ErrorsAbout(LowerCase(NPreviousCodes))) = 1

\* the places of the top-level object that a nested validateJsonData call is
\* made for: the value of a struct field, and each element of the list of a
\* []struct field that has an allowed length
NestedPlaces ==
  {<<AtKey(key)>> : key \in {k \in (DOMAIN TopMap) \cap (DOMAIN Declared(formType)) :
                               Declared(formType)[k].Type = TStruct}}
  \cup UNION {{<<AtElem(key, i - 1)>> : i \in DOMAIN TopMap[key].v} :
                key \in {k \in StructListKeys : WithinLength(k)}}

\* the returned errors of the nested call made for the place
ProducedUnder(place) ==
  {e \in DOMAIN errors :
     /\ Len(errors[e].at) >= Len(place)
     /\ SubSeq(errors[e].at, 1, Len(place)) = place}

\* C19: every error of the nested call made for a struct field or for an
\* element of a []struct field has a Field that starts with the path of the
\* field or of the element.
C19_ParentPrefix ==
  Decoded =>
    \A place \in NestedPlaces :
      \A e \in ProducedUnder(place) : HasPrefix(errors[e].Field, Render(place))

\* the same for the errors of the nested call other than its decode error:
\* their Field is the path of the place, "." and more
C19_BelowDecode ==
  Decoded =>
    \A place \in NestedPlaces :
      \A e \in ProducedUnder(place) :
        errors[e].at # place => HasPrefix(errors[e].Field, Render(place) \o <<".">>)

\* an element of personList without its required name
C19_WitnessBelow ==
  /\ Decoded
  /\ formType = "nestedForm"
  /\ \E e \in DOMAIN errors :
       /\ errors[e].at = <<AtElem(LowerCase(NPersonList), 1), AtKey(KName)>>
       /\ errors[e].Message.tmpl = "RequiredField"

\* C20: when a call has returned, every required field whose key is absent
\* from the document, from a nested object or from an element of a list of
\* objects has its one RequiredField error, whatever the calls before and
\* the elements before have held.
C20_RequiredEveryCall ==
  (Decoded /\ calls >= 1) =>
    \A L \in AllLevels :
      \A key \in DOMAIN Declared(L.T) :
        (Declared(L.T)[key].Required /\ key \notin DOMAIN L.m) =>
          Cardinality({e \in ErrorsAt(Append(L.at, AtKey(key))) :
                         errors[e].Message.tmpl = "RequiredField"}) = 1

\* the second call: the call before had person with its name; now person is
\* absent, and the second element of personList has no name after a first
\* that has
C20_Witness ==
  /\ Decoded
  /\ calls = 2
  /\ previous = <<Marshal(MapV(OneKey(LowerCase(NPerson), MapV(PersonNamed))))>>
  /\ TopMap = OneKey(LowerCase(NPersonList),
                     ListV(<<MapV(PersonNamed), MapV(PersonPartial)>>))
  /\ \E e \in ErrorsAt(<<AtKey(LowerCase(NPerson))>>) :
       errors[e].Message.tmpl = "RequiredField"
  /\ \E e \in ErrorsAt(<<AtElem(LowerCase(NPersonList), 1), AtKey(KName)>>) :
       /\ errors[e].Message.tmpl = "RequiredField"
       /\ errors[e].Field = IndexName(LowerCase(NPersonList), 1) \o <<".">> \o KName

\* a sequence that lists every element of the set once
Listed(set) == CHOOSE order \in Orders(set) : TRUE

RECURSIVE Concat(_)
Concat(seqs) == IF seqs = <<>> THEN <<>> ELSE Head(seqs) \o Concat(Tail(seqs))

\* what the validator of a key without nested objects returns for the value
ScalarOutcome(vs, key, val, parent, at) ==
  CASE vs.Type = TString -> validateString(vs, key, val, parent, at)
    [] vs.Type = TInt -> validateInt(vs, key, val, parent, at)
    [] vs.Type = TFloat -> validateFloat(vs, key, val, parent, at)
    [] vs.Type = TBool -> validateBool(key, val, parent, at)
    [] vs.Type \in ScalarListTypes -> AsSlice(ListOutcome(vs, key, val, parent, at))
    [] OTHER -> Outcome(<<>>, FALSE, NullV)

RECURSIVE ObjectErrors(_, _, _, _, _), ObjectFields(_, _, _)
\* the errors of one object of the document against the structure type, as
\* a function of the object, key by key: the errors of each key from its
\* value and its validations alone, the keys in one fixed order
ObjectErrors(T, data, before, parent, at) ==
  IF UnmarshalFails(data)
  THEN <<ValidationError(JsonText, Msg("InvalidFormat", <<data>>), at)>>
  ELSE
    LET m == UnmarshalMap(data)
        keys == Listed(DOMAIN m)
        missing == Listed({key \in DOMAIN Declared(T) :
                             Declared(T)[key].Required /\ key \notin DOMAIN m})
        ofKey(key) ==
          IF key \notin DOMAIN Declared(T)
          THEN <<ValidationError(getFieldName(parent, key), Msg("InvalidField", <<>>),
                                 Append(at, AtKey(key)))>>
          ELSE
            LET vs == Declared(T)[key]
                val == m[key]
                old == before[TitleCase(key)]
            IN CASE vs.Type = TStruct ->
                      ObjectErrors(ElemOf(T, key), Marshal(val), ZeroStruct(ElemOf(T, key)),
                                   getFieldName(parent, key), Append(at, AtKey(key)))
                 [] vs.Type = TStructList ->
                      IF val.k # "list"
                      THEN <<FormatError(key, val, parent, Append(at, AtKey(key)))>>
                      ELSE IF ListBoundErrors(vs, key, Len(val.v), parent,
                                              Append(at, AtKey(key))) # <<>>
                      THEN ListBoundErrors(vs, key, Len(val.v), parent, Append(at, AtKey(key)))
                      ELSE Concat([i \in DOMAIN val.v |->
                             ObjectErrors(ElemOf(T, key), Marshal(val.v[i]),
                                          SliceField(old, ElemOf(T, key), Len(val.v))[i],
                                          IndexName(getFieldName(parent, key), i - 1),
                                          Append(at, AtElem(key, i - 1)))])
                 [] OTHER -> ScalarOutcome(vs, key, val, parent, Append(at, AtKey(key))).errors
    IN Concat([n \in DOMAIN keys |-> ofKey(keys[n])])
       \o [n \in DOMAIN missing |->
             ValidationError(getFieldName(parent, missing[n]), Msg("RequiredField", <<>>),
                             Append(at, AtKey(missing[n])))]

\* the fields of the structure after the object has been validated into it,
\* field by field: each from the value of its key and what it held before
ObjectFields(T, data, before) ==
  IF UnmarshalFails(data) THEN before
  ELSE
    LET m == UnmarshalMap(data) IN
    [name \in DOMAIN before |->
       LET key == LowerCase(name) IN
       IF key \notin (DOMAIN m) \cap (DOMAIN Declared(T)) THEN before[name]
       ELSE
         LET vs == Declared(T)[key]
             val == m[key]
             old == before[name]
             elem == ElemOf(T, key)
         IN CASE vs.Type = TStruct ->
                   StructV(ObjectFields(elem, Marshal(val), ZeroStruct(elem)))
              [] vs.Type = TStructList ->
                   IF val.k # "list" THEN old
                   ELSE IF ListBoundErrors(vs, key, Len(val.v), <<>>, <<AtKey(key)>>) # <<>>
                   THEN old
                   ELSE FieldAfterElements(
                          [valueList |-> val.v,
                           old |-> old,
                           sliceField |->
                             [i \in DOMAIN val.v |->
                                ObjectFields(elem, Marshal(val.v[i]),
                                             SliceField(old, elem, Len(val.v))[i])],
                           errors |->
                             Concat([i \in DOMAIN val.v |->
                                ObjectErrors(elem, Marshal(val.v[i]),
                                             SliceField(old, elem, Len(val.v))[i],
                                             IndexName(key, i - 1), <<AtElem(key, i - 1)>>)])])
              [] OTHER ->
                   LET out == ScalarOutcome(vs, key, val, <<>>, <<AtKey(key)>>)
                   IN IF out.set THEN out.value ELSE old]

\* the two sequences have the same elements, each as many times
SameErrors(s, t) ==
  /\ Len(s) = Len(t)
  /\ \A i \in DOMAIN s :
       Cardinality({j \in DOMAIN s : s[j] = s[i]}) = Cardinality({j \in DOMAIN t : t[j] = s[i]})

C21_WitnessOtherOrder ==
  /\ Decoded
  /\ formType = "nestedForm"
  /\ DOMAIN TopMap = {LowerCase(NPerson), LowerCase(NPersonList)}
  /\ TopMap[LowerCase(NPerson)] = MapV(PersonBad)
  /\ TopMap[LowerCase(NPersonList)] = ListV(<<MapV(PersonPartial), MapV(PersonNamed)>>)
  /\ errors[1].at[1].key = LowerCase(NPerson)

\* the keys of the top-level object given to a struct field
StructKeys ==
  {key \in (DOMAIN TopMap) \cap (DOMAIN Declared(formType)) :
     Declared(formType)[key].Type = TStruct}

\* C22: a struct field whose key is present holds a new structure; each of
\* its fields holds the coerced value of its key when the key is in the
\* nested object and its value is valid, whatever errors the other keys of
\* the nested object have, and is unset otherwise.
C22_NestedFieldByField ==
  Decoded =>
    \A key \in StructKeys :
      LET elem == ElemOf(formType, key)
          f == form[TitleCase(key)]
          m == AsMap(TopMap[key])
      IN /\ f.k = "struct"
         /\ \A name \in FieldNames(elem) :
              IF LowerCase(name) \in DOMAIN m /\ ValidValue(elem, LowerCase(name), m[LowerCase(name)])
              THEN HoldsValue(elem, LowerCase(name), m[LowerCase(name)], f.v[name], FALSE)
              ELSE f.v[name] = NullV

\* person = {"age": 26, "surname": 1} on a filled form: the undeclared key
\* has its InvalidField error at person.surname, and Person holds Age 26 and
\* no Name
C22_Witness ==
  /\ Decoded
  /\ formType = "nestedForm"
  /\ initialForm = FilledForm(formType)
  /\ TopMap = OneKey(LowerCase(NPerson), MapV(PersonPartial))
  /\ \E e \in DOMAIN errors :
       /\ errors[e].Field = LowerCase(NPerson) \o <<".">> \o KSurname
       /\ errors[e].Message.tmpl = "InvalidField"
  /\ form[NPerson] = StructV([name \in FieldNames("Person") |->
                                IF name = NAge THEN IntV(26) ELSE NullV])

MinTemplates == {"InvalidMinString", "InvalidMinNumber", "InvalidMinList"}
MaxTemplates == {"InvalidMaxString", "InvalidMaxNumber", "InvalidMaxList"}

\* the clause is no min= and no max= clause
NotBound(clause) == ~HasPrefix(clause, KwMin) /\ ~HasPrefix(clause, KwMax)

\* the validations the tag of the field gives without its min= and max=
\* clauses
WithoutBounds(T, key) ==
  parseValidationTags(SelectSeq(Split(FieldByName(T, TitleCase(key)).Tag, DefaultSeparator),
                                NotBound))

\* C23: a field whose Min is 0 has no error about a minimum and a field
\* whose Max is 0 has none about a maximum, whatever the value or the
\* length; with both 0 its validations are those of the tag without the two
\* clauses, and a value that coerces has its choice errors at most.
C23_ZeroBound ==
  Decoded =>
    \A key \in (DOMAIN TopMap) \cap (DOMAIN Declared(formType)) :
      LET vs == Declared(formType)[key] IN
      /\ vs.Min = 0 =>
           \A e \in ErrorsAbout(key) : errors[e].Message.tmpl \notin MinTemplates
      /\ vs.Max = 0 =>
           \A e \in ErrorsAbout(key) : errors[e].Message.tmpl \notin MaxTemplates
      /\ (vs.Min = 0 /\ vs.Max = 0) => vs = WithoutBounds(formType, key)

\* delta tagged min=0;max=0 given -1, and label tagged min=0;max=0 given a
\* text of four characters: no error, both committed
C23_Witness ==
  /\ Decoded
  /\ formType = "zeroForm"
  /\ TopMap = Merge(OneKey(LowerCase(NDelta), NumV(-10)), OneKey(LowerCase(NLabel), StrV(Tabcd)))
  /\ errors = <<>>
  /\ form[NDelta] = IntV(-1)
  /\ form[NLabel] = StrV(Tabcd)

\* ratio tagged min=0.0;max=0 given 4, and ratios tagged min=0;max=0 given
\* three elements
C23_WitnessLength ==
  /\ Decoded
  /\ formType = "zeroForm"
  /\ TopMap = Merge(OneKey(LowerCase(NRatio), NumV(40)),
                    OneKey(LowerCase(NRatios), ListV(<<NumV(15), NumV(15), NumV(15)>>)))
  /\ errors = <<>>
  /\ form[NRatio] = NumV(40)
  /\ form[NRatios] = ListV(<<NumV(15)>>)

\* validateIntType or validateBoolType has returned
Coerced1(op) == helperCall.op = op /\ helperCall.outcome = "returned"

\* the text is a decimal integer: an optional sign and digits
IntegerText(t) == Unsigned(t) # <<>> /\ AllDigits(Unsigned(t))

\* the value is an integer: an integer text, a native integer, a real
\* without a fractional part
IsWhole(val) ==
  CASE val.k = "string" -> IntegerText(val.v)
    [] val.k = "int" -> TRUE
    [] val.k = "float64" -> val.v % 10 = 0
    [] OTHER -> FALSE

\* the integer a whole value is
WholeOf(val) ==
  CASE val.k = "string" -> ParseIntVal(val.v)
    [] val.k = "int" -> val.v
    [] val.k = "float64" -> (IF val.v >= 0 THEN val.v \div 10 ELSE 0 - ((0 - val.v) \div 10))

\* C24: validateIntType succeeds exactly on an integer text, a native integer
\* and a real without a fractional part, and the result is then the integer
\* the value is.
C24_IntCoercer ==
  Coerced1("validateIntType") =>
    /\ ~helperCall.result.invalidFormat <=> IsWhole(helperCall.arg)
    /\ ~helperCall.result.invalidFormat =>
         helperCall.result.value = IntV(WholeOf(helperCall.arg))

\* the same for the values within the int
C24_WithinInt ==
  (/\ Coerced1("validateIntType")
   /\ IsWhole(helperCall.arg) => (MinInt <= WholeOf(helperCall.arg)
                                  /\ WholeOf(helperCall.arg) <= MaxInt)) =>
    /\ ~helperCall.result.invalidFormat <=> IsWhole(helperCall.arg)
    /\ ~helperCall.result.invalidFormat =>
         helperCall.result.value = IntV(WholeOf(helperCall.arg))

\* the real 2^(IntBits - 1) is taken for the largest int on arm64
C24_WitnessBeyond ==
  /\ Coerced1("validateIntType")
  /\ helperCall.build = "arm64"
  /\ helperCall.arg = NumV(10 * (MaxInt + 1))
  /\ helperCall.result = [value |-> IntV(MaxInt), invalidFormat |-> FALSE]

\* the text the coercer renders of a text or a number: the text itself, the
\* decimal digits of the number
Rendering(val) ==
  CASE val.k = "string" -> val.v
    [] val.k = "int" -> Itoa(val.v)
    [] val.k = "float64" -> DecimalText(val.v)
    [] OTHER -> <<>>

FalseText == <<"f","a","l","s","e">>

\* C25 as stated: a text or a number is accepted only when its rendering is
\* true or false.
C25_AsStated ==
  Coerced1("validateBoolType") =>
    LET val == helperCall.arg
        r == helperCall.result
    IN CASE val.k = "bool" -> r = [value |-> val, invalidFormat |-> FALSE]
         [] val.k \in {"string", "int", "float64"} ->
              /\ ~r.invalidFormat <=> Rendering(val) \in {TrueText, FalseText}
              /\ ~r.invalidFormat => r.value = BoolV(Rendering(val) = TrueText)
         [] OTHER -> r.invalidFormat

\* the texts strconv.ParseBool takes for true and for false
TrueTexts == {<<"1">>, <<"t">>, <<"T">>, <<"T","R","U","E">>, TrueText, <<"T","r","u","e">>}
FalseTexts == {<<"0">>, <<"f">>, <<"F">>, <<"F","A","L","S","E">>, FalseText, <<"F","a","l","s","e">>}

\* C25, amended: validateBoolType gives a native boolean unchanged; it
\* accepts a text or a number exactly when its rendering is one of 1, t, T,
\* TRUE, true, True, which give true, or of 0, f, F, FALSE, false, False,
\* which give false; it rejects every other value.
C25_BoolCoercer ==
  Coerced1("validateBoolType") =>
    LET val == helperCall.arg
        r == helperCall.result
    IN CASE val.k = "bool" -> r = [value |-> val, invalidFormat |-> FALSE]
         [] val.k \in {"string", "int", "float64"} ->
              /\ ~r.invalidFormat <=> Rendering(val) \in TrueTexts \cup FalseTexts
              /\ ~r.invalidFormat => r.value = BoolV(Rendering(val) \in TrueTexts)
         [] OTHER -> r.invalidFormat

\* the number 0 is accepted and gives false
C25_Witness ==
  /\ Coerced1("validateBoolType")
  /\ helperCall.arg = NumV(0)
  /\ helperCall.result = [value |-> BoolV(FALSE), invalidFormat |-> FALSE]

\* the keys of the top-level object given to a boolean field
BoolKeys ==
  {key \in (DOMAIN TopMap) \cap (DOMAIN Declared(formType)) :
     Declared(formType)[key].Type = TBool}

\* C26: a boolean field given the number 1 has no error and holds true; given
\* the number 123 it has one error, the InvalidFormat error with 123 at the
\* path of the field, and holds what it held before the call.
C26_BoolNumbers ==
  Decoded =>
    \A key \in BoolKeys :
      /\ TopMap[key] = NumV(10) =>
           /\ ErrorsAbout(key) = {}
           /\ form[TitleCase(key)] = BoolV(TRUE)
      /\ TopMap[key] = NumV(1230) =>
           /\ Cardinality(ErrorsAbout(key)) = 1
           /\ \A e \in ErrorsAbout(key) :
                /\ errors[e].Field = key
                /\ errors[e].Message = Msg("InvalidFormat", <<NumV(1230)>>)
           /\ form[TitleCase(key)] = initialForm[TitleCase(key)]

\* successful = 123 on an empty form: the error, and Successful unset
C26_Witness ==
  /\ Decoded
  /\ formType = "scalarForm"
  /\ initialForm = ZeroStruct(formType)
  /\ LowerCase(NSuccessful) \in DOMAIN TopMap
  /\ TopMap[LowerCase(NSuccessful)] = NumV(1230)
  /\ \E e \in DOMAIN errors :
       /\ errors[e].Field = LowerCase(NSuccessful)
       /\ errors[e].Message = Msg("InvalidFormat", <<NumV(1230)>>)
  /\ form[NSuccessful] = NullV

\* successful = 1 on a form that held false: Successful is true
C26_WitnessOne ==
  /\ Decoded
  /\ formType = "scalarForm"
  /\ initialForm = FilledForm(formType)
  /\ LowerCase(NSuccessful) \in DOMAIN TopMap
  /\ TopMap[LowerCase(NSuccessful)] = NumV(10)
  /\ form[NSuccessful] = BoolV(TRUE)

\* the type the recognized type= clauses before clause i have established
RECURSIVE TypeBefore(_, _)
TypeBefore(cs, i) ==
  IF i <= 1 THEN <<>>
  ELSE IF HasPrefix(cs[i - 1], KwType) /\ CutPrefix(cs[i - 1], KwType) \in KnownTypes
  THEN CutPrefix(cs[i - 1], KwType)
  ELSE TypeBefore(cs, i - 1)

\* the text is a decimal number: an optional sign, digits, at most one point
DecimalNumber(t) ==
  /\ Unsigned(t) # <<>>
  /\ \A n \in DOMAIN Unsigned(t) : IsDigit(Unsigned(t)[n]) \/ Unsigned(t)[n] = "."
  /\ Cardinality({n \in DOMAIN t : t[n] = "."}) <= 1
  /\ \E n \in DOMAIN t : IsDigit(t[n])

\* the value of a bound clause parses for the type
BoundParses(type, value) ==
  CASE type \in {TString, TInt, TStringList, TIntList, TFloatList, TStructList} ->
         IntegerText(value)
    [] type = TFloat -> DecimalNumber(value)
    [] OTHER -> FALSE

\* some piece of the value of a choices clause parses for the type
ChoicesParse(type, value) ==
  CASE type \in {TString, TStringList} -> value # <<>>
    [] type \in {TInt, TIntList} ->
         \E n \in DOMAIN Split(value, ",") : IntegerText(Split(value, ",")[n])
    [] type \in {TFloat, TFloatList} ->
         \E n \in DOMAIN Split(value, ",") : DecimalNumber(Split(value, ",")[n])
    [] OTHER -> FALSE

\* clause i is a min=, max= or choices= clause before every type= clause,
\* or its value does not parse for the type before it, or it is a bound of
\* a boolean or struct field
WithoutEffect(cs, i) ==
  \/ /\ HasPrefix(cs[i], KwMin)
     /\ ~BoundParses(TypeBefore(cs, i), CutPrefix(cs[i], KwMin))
  \/ /\ HasPrefix(cs[i], KwMax)
     /\ ~BoundParses(TypeBefore(cs, i), CutPrefix(cs[i], KwMax))
  \/ /\ HasPrefix(cs[i], KwChoices)
     /\ ~ChoicesParse(TypeBefore(cs, i), CutPrefix(cs[i], KwChoices))

\* the clauses without clause i
Without(cs, i) == SubSeq(cs, 1, i - 1) \o SubSeq(cs, i + 1, Len(cs))

ParsedTag == helperCall.op = "parseValidationTags" /\ helperCall.outcome = "returned"

\* C27: a min=, max= or choices= clause that comes before the type= clause,
\* or whose value does not parse for the type before it, or that bounds a
\* boolean or a struct, has no effect: the validations are those of the tag
\* without the clause.
C27_ClauseByType ==
  ParsedTag =>
    \A i \in DOMAIN helperCall.arg :
      WithoutEffect(helperCall.arg, i) =>
        helperCall.result = parseValidationTags(Without(helperCall.arg, i))

\* the same for the tags with one choices= clause at most
C27_OneChoicesClause ==
  (/\ ParsedTag
   /\ Cardinality({i \in DOMAIN helperCall.arg : HasPrefix(helperCall.arg[i], KwChoices)}) <= 1) =>
    \A i \in DOMAIN helperCall.arg :
      WithoutEffect(helperCall.arg, i) =>
        helperCall.result = parseValidationTags(Without(helperCall.arg, i))

\* min=1.5 after type=int: Min stays unset, the type and required are kept
C27_WitnessNoEffect ==
  /\ ParsedTag
  /\ helperCall.arg = <<Clause(KwType, TInt), Clause(KwMin, <<"1",".","5">>),
                        Clause(KwRequired, TrueText)>>
  /\ helperCall.result = [NewValidations EXCEPT !.Type = TInt, !.Required = TRUE]

\* the keys of the document whose field is declared without a recognized type
UntypedKeys == {k \in DOMAIN TopMap \cap DOMAIN Declared(formType) :
                  Declared(formType)[k].Type \notin KnownTypes}

\* C30: a key of a declared field whose tag has no recognized type= clause
\* is accepted whatever its value: no error is at the key or names it, the
\* field holds what it held before the call, and no RequiredField error is
\* emitted for it although the tag says required.
C30_UntypedAccepted ==
  Decoded =>
    \A k \in UntypedKeys :
      /\ \A e \in DOMAIN errors : errors[e].at = <<>> \/ errors[e].at[1].key # k
      /\ \A e \in DOMAIN errors : errors[e].Field # k
      /\ form[TitleCase(k)] = initialForm[TitleCase(k)]

\* note is required and has no type; it comes with a text beside a key that
\* has an error of its own
C30_Witness ==
  /\ Decoded
  /\ formType = "mixedForm"
  /\ LowerCase(NNote) \in UntypedKeys
  /\ Declared(formType)[LowerCase(NNote)].Required
  /\ TopMap[LowerCase(NNote)] = StrV(Tab)
  /\ initialForm = FilledForm(formType)
  /\ errors # <<>>

\* C29: the length of a scalar list is checked as decoded, before the
\* repeated values are dropped.  A list within its bounds whose elements
\* are all coerced and within the choices is committed de-duplicated with no
\* error, however short the de-duplicated list is; a list longer than a
\* non-zero Max has the InvalidMaxList error alone and the field holds what
\* it held, however short the de-duplicated list would be.
C29_LengthBeforeDedup ==
  Decoded =>
    \A key \in ScalarListKeys :
      LET vs == Declared(formType)[key]
          dedup == FirstOccurrences(CoercedList(vs.Type, TopMap[key]))
      IN /\ (/\ WithinLength(key)
             /\ Failing(key) = {}
             /\ vs.Choices # <<>> => \A j \in DOMAIN dedup : dedup[j] \in Range(vs.Choices)) =>
               /\ ErrorsAbout(key) = {}
               /\ AsList(form[TitleCase(key)]) = dedup
         /\ (/\ TopMap[key].k = "list"
             /\ vs.Max # 0
             /\ 10 * Len(TopMap[key].v) > vs.Max) =>
               /\ Cardinality(ErrorsAbout(key)) = 1
               /\ \A e \in ErrorsAbout(key) :
                    errors[e].Message = Msg("InvalidMaxList", <<IntV(vs.Max \div 10)>>)
               /\ form[TitleCase(key)] = initialForm[TitleCase(key)]

\* rates = [1.5, 1.5] against min=2: [1.5] is committed with no error
C29_Witness ==
  /\ Decoded
  /\ formType = "listForm"
  /\ initialForm = FilledForm(formType)
  /\ TopMap = (LowerCase(NRates) :> ListV(<<NumV(15), NumV(15)>>))
  /\ Declared(formType)[LowerCase(NRates)].Min = 20
  /\ errors = <<>>
  /\ form[NRates] = ListV(<<NumV(15)>>)

\* rates = [1.5, 1.5, 1.5] against max=2: rejected, although one value is left
\* after de-duplication
C29_WitnessOverMax ==
  /\ Decoded
  /\ formType = "listForm"
  /\ initialForm = FilledForm(formType)
  /\ TopMap = (LowerCase(NRates) :> ListV(<<NumV(15), NumV(15), NumV(15)>>))
  /\ Len(errors) = 1
  /\ errors[1].Message = Msg("InvalidMaxList", <<IntV(2)>>)
  /\ form = initialForm

Greatest(S) == CHOOSE x \in S : \A y \in S : y <= x

\* how deep the objects of a value are nested
RECURSIVE NestingDepth(_)
NestingDepth(val) ==
  CASE val.k = "map" ->
         1 + Greatest({0} \cup {NestingDepth(val.v[key]) : key \in DOMAIN val.v})
    [] val.k = "list" ->
         Greatest({0} \cup {NestingDepth(val.v[i]) : i \in DOMAIN val.v})
    [] OTHER -> 0

\* C28: a call of Validate returns its errors, and until then there are
\* never more validateJsonData invocations in progress than one for the
\* document and one for each level of objects nested in it, the structures
\* that refer to themselves included.
C28_Terminates ==
  /\ [](pc = "run" => Len(stack) <= 1 + NestingDepth(jsonData.v))
  /\ (pc = "run") ~> (pc = "done")

\* a structure that refers to itself is entered three levels below the
\* document; the innermost next is null
C28_Witness ==
  /\ pc = "run"
  /\ formType = "Node"
  /\ jsonData.v = MapV(OneKey(KNext, MapV(NodeDeep)))
  /\ Len(stack) = 4
  /\ Top.T = "Node"

====
